---- MODULE Spec2Model ----
(***************************************************************************)
(* Model of the LegionMeet transcript service (teams-bot-poc, python):     *)
(* the session manager, the checklist state manager, the ingestion         *)
(* handler, the analysis worker, the output store and the route dispatch.  *)
(*                                                                         *)
(* Concurrency is asyncio's: one event loop, a task runs until it awaits   *)
(* something that really suspends.  Every action below is the code between *)
(* two suspension points of one task.                                      *)
(***************************************************************************)
EXTENDS Integers, Sequences, FiniteSets, TLC

\* ------------------------------------------------------------------------
\* Bounds of the model
\* ------------------------------------------------------------------------
MaxSessions == 2
MaxEvents == 2
MaxTime == 2
MaxInFlight == 1
MaxRoutes == 3
MaxItems == 3
MaxTasks == 2
MaxThoughts == 4
MaxSubscribers == 2
MaxHistory == 2

\* ------------------------------------------------------------------------
\* Values
\* ------------------------------------------------------------------------
\* Optional[str] fields: the absent value
NoneStr == <<"None">>
NoSpeaker == "None"
\* ended_at / updated_at: null, timestamps are 1..MaxTime
NullTime == 0
\* _session is None
NoSession == 0

Speakers == {"speaker_0", "speaker_1"}
ValidRoles == {"candidate", "interviewer"}

PENDING == "pending"
ANALYZING == "analyzing"
COMPLETE == "complete"
ChecklistStatus == {PENDING, ANALYZING, COMPLETE}

\* The checklist of the active product spec, in declaration order: the first
\* two items of the default variant
Definitions ==
    << [id |-> "intro", label |-> "Intro",
        keywords |-> {"good morning", "introduce", "background"}],
       [id |-> "experience", label |-> "Experience",
        keywords |-> {"experience", "project", "scale"}] >>
ItemIds == {Definitions[i].id : i \in 1..Len(Definitions)}

\* str.lower() on the words and names the model uses
Lower(w) ==
    CASE w = "Introduce" -> "introduce"
      [] w = "INTRODUCE" -> "introduce"
      [] w = "Intro" -> "intro"
      [] w = "INTRO" -> "intro"
      [] w = "Experience" -> "experience"
      [] OTHER -> w

\* A text is None or a sequence of words; "" is the empty sequence
Truthy(text) == text # NoneStr /\ text # <<>>
LowerText(text) == [i \in 1..Len(text) |-> Lower(text[i])]
Contains(text, w) == \E i \in 1..Len(text) : text[i] = w

VARIABLES
    session,           \* InterviewSessionManager._session (NoSessionObj for None)
    past,              \* ended_at of every session object _session no longer refers to
    speaker_roles,     \* InterviewSessionManager._speaker_roles, in dict order
    state,             \* ChecklistStateManager._state
    transcript_queue,  \* general queue
    agent_queue,       \* analysis queue
    events_received,   \* stats["events_received"]
    req,               \* position of each receive_transcript request, by event id
    worker,            \* the agent_processing_loop task
    analyzer,          \* whether the worker has an InterviewAnalyzer
    docs,              \* {session_id}_analysis.json files
    dispatched,        \* payloads handed to dispatch_all
    analyze_calls,     \* how often analyze_async was called, by event id
    failed_calls,      \* ids of the events whose analysis call failed
    put_log,           \* ids of the events put on the analysis queue, in put order
    writing,           \* the write of a document that is under way, if any
    loaded,            \* what the last load_analysis of a reader returned
    routes,            \* RouteOrchestrator._routes
    call,              \* the dispatch_all call under way, with what it has collected
    publisher,         \* AgentThoughtPublisher: _subscribers, _history, _lock
    queues,            \* the queues subscribe has made, by queue id
    tasks,             \* the tasks calling the publisher, each at its await
    published,         \* how many thoughts publish has taken in
    stats,             \* stats["v1_events"] and stats["v2_events"]
    resp,              \* outcome of the last call or request
    now                \* wall clock

vars == << session, past, speaker_roles, state, transcript_queue, agent_queue,
           events_received, req, worker, analyzer, docs, dispatched,
           analyze_calls, failed_calls, put_log, writing, loaded, routes, call,
           publisher, queues, tasks, published, stats, resp, now >>

mgrVars == << session, past, speaker_roles >>
pipeVars == << transcript_queue, agent_queue, events_received, req, worker,
               analyze_calls, failed_calls, put_log >>
\* what no handler of the sink changes: the worker's analyzer, and the
\* variables of the output store and of the route orchestrator taken by
\* themselves
pubVars == << publisher, queues, tasks, published >>
normVars == << stats >>
fixedVars == << analyzer, writing, loaded, routes, call, pubVars, normVars >>

\* ------------------------------------------------------------------------
\* InterviewSessionManager (interview_agent/session.py)
\* ------------------------------------------------------------------------
InterviewSession(sid, t) ==
    [session_id |-> sid, started_at |-> t, ended_at |-> NullTime,
     speaker_mappings |-> <<>>, transcript_events |-> <<>>]

NoSessionObj == [session_id |-> NoSession]
IsNone(s) == s.session_id = NoSession

is_active_of(s) == ~IsNone(s) /\ s.ended_at = NullTime
is_active == is_active_of(session)

\* an end_session that forgets the stamp
mgr_end_session_unstamped(s, t) == s
\* end_session: stamps ended_at on the current session object, keeps _session
mgr_end_session(s, t) ==
    IF IsNone(s) THEN s ELSE [s EXCEPT !.ended_at = t]

\* start_session: ends any existing session; the ended object is referred to no more
mgr_start_past(s, p, t) ==
    IF IsNone(s) THEN p ELSE Append(p, mgr_end_session(s, t).ended_at)

\* start_session: the new session, with a session_id never used before
mgr_start_session(s, p, t) == InterviewSession(Len(mgr_start_past(s, p, t)) + 1, t)

\* dict assignment d[k] = v: a new key goes last, an old key keeps its place
DictSet(d, k, v) ==
    IF \E i \in 1..Len(d) : d[i][1] = k
    THEN [i \in 1..Len(d) |-> IF d[i][1] = k THEN <<k, v>> ELSE d[i]]
    ELSE Append(d, <<k, v>>)

DictGet(d, k) ==
    IF \E i \in 1..Len(d) : d[i][1] = k
    THEN (CHOOSE p \in {d[i] : i \in 1..Len(d)} : p[1] = k)[2]
    ELSE "None"

RemoveSpeaker(ms, sp) == SelectSeq(ms, LAMBDA m : m.speaker_id # sp)

\* a map_speaker that appends without removing the speaker's old mapping
mgr_map_mappings_keeps(ms, sp, role) ==
    Append(ms, [speaker_id |-> sp, role |-> role])
\* map_speaker, after its two checks
mgr_map_mappings(ms, sp, role) ==
    Append(RemoveSpeaker(ms, sp), [speaker_id |-> sp, role |-> role])

get_candidate_speaker_id_of(roles) ==
    IF \E i \in 1..Len(roles) : roles[i][2] = "candidate"
    THEN roles[CHOOSE i \in 1..Len(roles) :
                 /\ roles[i][2] = "candidate"
                 /\ \A j \in 1..(i - 1) : roles[j][2] # "candidate"][1]
    ELSE NoSpeaker
get_candidate_speaker_id == get_candidate_speaker_id_of(speaker_roles)

get_speaker_role(sp) == DictGet(speaker_roles, sp)

\* ------------------------------------------------------------------------
\* ChecklistStateManager (interview_agent/checklist_state.py)
\* ------------------------------------------------------------------------
ChecklistItemState ==
    [status |-> PENDING, updated_at |-> NullTime, reason |-> "None", source |-> "None"]

ResetState == [i \in ItemIds |-> ChecklistItemState]

\* a reset that leaves the items as they are
reset_keeps(st) == st
\* reset
reset(st) == [i \in ItemIds |-> ChecklistItemState]

\* a lookup that falls back on the first item of the checklist
resolve_item_id_lenient(item) ==
    IF item \in ItemIds THEN item
    ELSE IF \E i \in 1..Len(Definitions) : Lower(Definitions[i].label) = Lower(item)
         THEN Definitions[CHOOSE i \in 1..Len(Definitions) :
                            Lower(Definitions[i].label) = Lower(item)].id
         ELSE Definitions[1].id
\* _resolve_item_id: by id, else by lower-cased label; "None" when unknown
resolve_item_id(item) ==
    IF item = "" THEN "None"
    ELSE IF item \in ItemIds THEN item
    ELSE IF \E i \in 1..Len(Definitions) : Lower(Definitions[i].label) = Lower(item)
         THEN Definitions[CHOOSE i \in 1..Len(Definitions) :
                            Lower(Definitions[i].label) = Lower(item)].id
         ELSE "None"

\* an update that does not compare with the current status
update_applies_always(st, item, status) ==
    /\ resolve_item_id(item) # "None"
    /\ status \in ChecklistStatus
\* update: whether it changes anything
update_applies(st, item, status) ==
    /\ resolve_item_id(item) # "None"
    /\ status \in ChecklistStatus
    /\ st[resolve_item_id(item)].status # status

\* update: the state it leaves
update(st, item, status, reason, source, t) ==
    IF update_applies(st, item, status)
    THEN [st EXCEPT ![resolve_item_id(item)] =
            [status |-> status, updated_at |-> t, reason |-> reason, source |-> source]]
    ELSE st

\* the first item, in declaration order, one of whose keywords is in the text
Matches(i, text) ==
    \E k \in Definitions[i].keywords : Contains(LowerText(text), Lower(k))
\* a scan that keeps the last item that matches
LastMatch(text) ==
    IF \E i \in 1..Len(Definitions) : Matches(i, text)
    THEN CHOOSE i \in 1..Len(Definitions) :
            /\ Matches(i, text)
            /\ \A j \in (i + 1)..Len(Definitions) : ~Matches(j, text)
    ELSE 0
FirstMatch(text) ==
    IF \E i \in 1..Len(Definitions) : Matches(i, text)
    THEN CHOOSE i \in 1..Len(Definitions) :
            /\ Matches(i, text)
            /\ \A j \in 1..(i - 1) : ~Matches(j, text)
    ELSE 0

\* a heuristic that completes a pending item at once when the candidate speaks
heuristic_target_direct(st, text, speaker_role) ==
    IF ~Truthy(text) \/ FirstMatch(text) = 0 THEN "None"
    ELSE LET cs == st[Definitions[FirstMatch(text)].id].status
         IN  IF cs = PENDING
             THEN (IF speaker_role = "candidate" THEN COMPLETE ELSE ANALYZING)
             ELSE IF cs = ANALYZING /\ speaker_role = "candidate" THEN COMPLETE
             ELSE "None"
\* a heuristic that completes an analyzing item whoever speaks
heuristic_target_any_role(st, text, speaker_role) ==
    IF ~Truthy(text) \/ FirstMatch(text) = 0 THEN "None"
    ELSE LET cs == st[Definitions[FirstMatch(text)].id].status
         IN  IF cs = PENDING THEN ANALYZING
             ELSE IF cs = ANALYZING THEN COMPLETE
             ELSE "None"
\* apply_talestral_heuristic: the status it asks update for, "None" for none
heuristic_target(st, text, speaker_role) ==
    IF ~Truthy(text) \/ FirstMatch(text) = 0 THEN "None"
    ELSE LET cs == st[Definitions[FirstMatch(text)].id].status
         IN  IF cs = PENDING THEN ANALYZING
             ELSE IF cs = ANALYZING /\ speaker_role = "candidate" THEN COMPLETE
             ELSE "None"

apply_talestral_heuristic(st, text, speaker_role, t) ==
    IF heuristic_target(st, text, speaker_role) = "None" THEN st
    ELSE update(st, Definitions[FirstMatch(text)].id,
                heuristic_target(st, text, speaker_role),
                IF heuristic_target(st, text, speaker_role) = ANALYZING
                THEN "Keyword hit while topic is being discussed"
                ELSE "Candidate response completed active topic",
                "heuristic", t)

snapshot(st) == [i \in 1..Len(Definitions) |-> st[Definitions[i].id].status]

\* snapshot: the rows it returns, one per definition, in declaration order
snapshot_rows(st) ==
    [i \in 1..Len(Definitions) |->
        [id |-> Definitions[i].id,
         label |-> Definitions[i].label,
         status |-> st[Definitions[i].id].status,
         updated_at |-> st[Definitions[i].id].updated_at,
         reason |-> st[Definitions[i].id].reason,
         source |-> st[Definitions[i].id].source]]

\* a snapshot that marks the items it has reported
snapshot_state_marked(st) == [i \in ItemIds |-> [st[i] EXCEPT !.source = "snapshot"]]
\* snapshot: the state it leaves; it assigns nothing
snapshot_state(st) == st

\* ------------------------------------------------------------------------
\* AnalysisOutputWriter (interview_agent/output.py)
\* ------------------------------------------------------------------------
\* Scores are counted in tenths: 0..10 for 0.0..1.0.  A mean is the exact
\* fraction sum / count in lowest terms; NoMean is None.
NoMean == << >>

RECURSIVE Gcd(_, _)
Gcd(a, b) == IF b = 0 THEN a ELSE Gcd(b, a % b)

RECURSIVE SumOf(_, _)
SumOf(items, field) ==
    IF items = << >> THEN 0 ELSE Head(items)[field] + SumOf(Tail(items), field)

\* sum(item.<field> for item in items) / len(items), for a list that is not empty
Mean(items, field) ==
    LET total == SumOf(items, field)
        g == Gcd(Len(items), total)
    IN  << total \div g, Len(items) \div g >>

SessionAnalysis(sid, ended, items, checklist) ==
    [session_id |-> sid, ended_at |-> ended, analysis_items |-> items,
     overall_relevance |-> NoMean, overall_clarity |-> NoMean,
     total_responses_analyzed |-> Len(items), checklist_state |-> checklist]

\* a compute_overall_scores that trusts the aggregates the object carries
compute_overall_scores_kept(analysis) == analysis
\* SessionAnalysis.compute_overall_scores
compute_overall_scores(analysis) ==
    IF analysis.analysis_items = << >>
    THEN [analysis EXCEPT !.overall_relevance = NoMean,
                          !.overall_clarity = NoMean,
                          !.total_responses_analyzed = 0]
    ELSE [analysis EXCEPT
            !.total_responses_analyzed = Len(analysis.analysis_items),
            !.overall_relevance = Mean(analysis.analysis_items, "relevance_score"),
            !.overall_clarity = Mean(analysis.analysis_items, "clarity_score")]

HasDoc(ds, sid) == sid \in DOMAIN ds

\* write_analysis: recomputes the aggregates, then overwrites the file
write_analysis(ds, sid, analysis) ==
    (sid :> compute_overall_scores(analysis)) @@ ds

\* A file that open(path, "w") has emptied and json.dump has not finished, or
\* any other file that is not valid JSON
Truncated == [truncated |-> TRUE]
IsTruncated(d) == "truncated" \in DOMAIN d

\* Files that are valid JSON and no document of the writer: an array, an
\* object without the keys of a document, and an object that has
\* analysis_items (and _meta or not) but no session_id
JsonArray == [json |-> "array"]
EmptyObject == [json |-> "object"]
PartialObject(items, meta) == [json |-> "object", analysis_items |-> items, meta |-> meta]

\* the file holds what SessionAnalysis.model_validate accepts; the files the
\* writer itself wrote carry _meta as well
IsDocument(d) == "session_id" \in DOMAIN d

\* append_item: the exception its load and its update of the loaded data
\* raise, "None" for none
append_item_raises(ds, sid) ==
    IF ~HasDoc(ds, sid) THEN "None"
    ELSE IF IsTruncated(ds[sid]) THEN "OutputReadError"
    ELSE IF IsDocument(ds[sid]) THEN "None"
    ELSE IF ds[sid].json = "array" THEN "TypeError"
    ELSE IF "analysis_items" \notin DOMAIN ds[sid] THEN "KeyError"
    ELSE IF ~ds[sid].meta THEN "KeyError"
    ELSE "None"

\* an append_item that leaves the stored count as it found it
append_item_stale_count(ds, sid, item, checklist) ==
    LET data == IF HasDoc(ds, sid) THEN ds[sid]
                ELSE SessionAnalysis(sid, NullTime, <<>>, checklist)
        items == Append(data.analysis_items, item)
    IN  IF append_item_raises(ds, sid) # "None" \/ ~IsDocument(data) THEN ds
        ELSE (sid :> [data EXCEPT !.analysis_items = items,
                                  !.checklist_state = checklist]) @@ ds
\* append_item: load the file or a minimal document, append, write back
append_item(ds, sid, item, checklist) ==
    LET data == IF HasDoc(ds, sid) THEN ds[sid]
                ELSE SessionAnalysis(sid, NullTime, <<>>, checklist)
        items == Append(data.analysis_items, item)
    IN  IF append_item_raises(ds, sid) # "None" THEN ds
        ELSE IF IsDocument(data)
        THEN (sid :> [data EXCEPT !.analysis_items = items,
                                  !.total_responses_analyzed = Len(items),
                                  !.overall_relevance = Mean(items, "relevance_score"),
                                  !.overall_clarity = Mean(items, "clarity_score"),
                                  !.checklist_state = checklist]) @@ ds
        ELSE (sid :> [json |-> "object", analysis_items |-> items, meta |-> TRUE,
                      total_responses_analyzed |-> Len(items),
                      overall_relevance |-> Mean(items, "relevance_score"),
                      overall_clarity |-> Mean(items, "clarity_score"),
                      checklist_state |-> checklist]) @@ ds

NoWrite == [sid |-> NoSession]
NotLoaded == [result |-> "not loaded"]

\* a load that misses the item appended last, as a reader would that had
\* read the file before the append
load_analysis_stale(ds, sid) ==
    IF HasDoc(ds, sid) /\ IsDocument(ds[sid])
    THEN [result |-> "ok",
          doc |-> [ds[sid] EXCEPT !.analysis_items =
                      SubSeq(@, 1, IF Len(@) = 0 THEN 0 ELSE Len(@) - 1)]]
    ELSE [result |-> "None"]
\* load_analysis: None without a file; OutputReadError for a file that is not
\* valid JSON; data.pop("_meta", None) raises TypeError on a JSON array;
\* OutputReadError when model_validate refuses the object; else the document
load_analysis(ds, sid) ==
    IF ~HasDoc(ds, sid) THEN [result |-> "None"]
    ELSE IF IsTruncated(ds[sid]) THEN [result |-> "OutputReadError"]
    ELSE IF IsDocument(ds[sid]) THEN [result |-> "ok", doc |-> ds[sid]]
    ELSE IF ds[sid].json = "array" THEN [result |-> "TypeError"]
    ELSE [result |-> "OutputReadError"]

\* ------------------------------------------------------------------------
\* Routes (legionmeet_platform/routes)
\* ------------------------------------------------------------------------
Route(id, type) == [route_id |-> id, route_type |-> type]
RouteTypes == {"ui_stream", "webhook"}

\* one enabled ui_stream route
DefaultRoutes == << Route(1, "ui_stream") >>

\* detail: str | None = None
NoDetail == << "None" >>

RouteDispatchResult(route, ok, detail) ==
    [route_id |-> route.route_id, route_type |-> route.route_type,
     ok |-> ok, detail |-> detail]

\* what the HTTP exchange of a webhook comes to: a response with its status,
\* or an exception (network error, timeout)
HttpOutcomes ==
    { [status |-> st, raised |-> FALSE] : st \in {200, 204, 301, 404, 500} }
        \cup { [status |-> 0, raised |-> TRUE] }

\* WebhookRoute.dispatch
webhook_dispatch(route, outcome) ==
    IF outcome.raised
    THEN RouteDispatchResult(route, FALSE, << "str(exc)" >>)
    ELSE IF outcome.status >= 400
    THEN RouteDispatchResult(route, FALSE, << "HTTP", outcome.status >>)
    ELSE RouteDispatchResult(route, TRUE, NoDetail)

\* UiStreamRoute.dispatch
ui_stream_dispatch(route) ==
    RouteDispatchResult(route, TRUE, << "Rendered via sink-owned output artifacts" >>)

route_dispatch(route, outcome) ==
    IF route.route_type = "webhook" THEN webhook_dispatch(route, outcome)
    ELSE ui_stream_dispatch(route)

NoCall == [pc |-> "idle", results |-> <<>>, outcomes |-> <<>>]

\* OutputRouteType, and the types build_route_orchestrator has no class for
OutputRouteTypes == {"ui_stream", "webhook", "teams_chat", "teams_dm"}
UnimplementedTypes == {"teams_chat", "teams_dm"}

\* OutputRouteSpec: ids are unique, here the position in outputs.routes; an
\* enabled webhook has its url (validate_route)
OutputRouteSpec(id, type, enabled) == [id |-> id, type |-> type, enabled |-> enabled]

\* a build that passes over the types it has no class for
build_route_orchestrator_skips(spec_routes) ==
    LET built == SelectSeq(spec_routes,
                           LAMBDA r : r.enabled /\ r.type \notin UnimplementedTypes)
    IN  IF built = << >>
        THEN [ok |-> FALSE, err |-> "RuntimeError: no enabled routes", routes |-> << >>]
        ELSE [ok |-> TRUE, err |-> "None",
              routes |-> [i \in 1..Len(built) |-> Route(built[i].id, built[i].type)]]
\* build_route_orchestrator: disabled routes are passed over; an enabled route
\* of a type without a class raises; so does a spec without enabled routes
build_route_orchestrator(spec_routes) ==
    LET enabled == SelectSeq(spec_routes, LAMBDA r : r.enabled)
    IN  IF \E i \in 1..Len(enabled) : enabled[i].type \in UnimplementedTypes
        THEN [ok |-> FALSE, err |-> "RuntimeError: unimplemented type", routes |-> << >>]
        ELSE IF enabled = << >>
        THEN [ok |-> FALSE, err |-> "RuntimeError: no enabled routes", routes |-> << >>]
        ELSE [ok |-> TRUE, err |-> "None",
              routes |-> [i \in 1..Len(enabled) |-> Route(enabled[i].id, enabled[i].type)]]

\* a dispatch_all that gives up at the first failed route
dispatch_all_stops(c, n, result, outcome) ==
    [pc |-> IF Len(c.results) + 1 = n \/ ~result.ok THEN "returned" ELSE "running",
     results |-> Append(c.results, result),
     outcomes |-> Append(c.outcomes, outcome)]
\* dispatch_all: the result of one more route is collected; after the last
\* of the n routes the list is returned
dispatch_all_collect(c, n, result, outcome) ==
    [pc |-> IF Len(c.results) + 1 = n THEN "returned" ELSE "running",
     results |-> Append(c.results, result),
     outcomes |-> Append(c.outcomes, outcome)]

\* ------------------------------------------------------------------------
\* AgentThoughtPublisher (interview_agent/pubsub.py)
\* ------------------------------------------------------------------------
\* A thought is the number of its publish call, in publish order.
NoTask == 0
Tasks == 1..MaxTasks

\* __init__
NewPublisher == [subscribers |-> <<>>, history |-> <<>>, lock |-> NoTask]

\* a task that is in no call of the publisher
IdleTask == [pc |-> "idle", i |-> 0, thought |-> 0, queue |-> 0]

\* asyncio.Queue() of subscribe; first: the place, in publish order, of the
\* oldest thought the history holds when the queue is made
NewQueue(first) == [items |-> <<>>, first |-> first]

\* a publisher whose calls do not wait for each other
lock_free_always(p) == TRUE
\* async with self._lock: entered at once when no task holds the lock,
\* otherwise the caller waits until it is released
lock_free(p) == p.lock = NoTask

\* publish: self._history[-self._max_history:] once the history is too long
trim_history(h) ==
    IF Len(h) > MaxHistory THEN SubSeq(h, Len(h) - MaxHistory + 1, Len(h)) ELSE h

\* await queue.put(thought) returned
queue_put(qs, q, thought) == [qs EXCEPT ![q].items = Append(@, thought)]

\* ------------------------------------------------------------------------
\* normalize_v1_to_v2 (transcript_sink.py)
\* ------------------------------------------------------------------------
\* the legacy kinds the model sends, in the spellings it sends them
Kinds ==
    { "recognizing", "Recognizing", "recognized", "RECOGNIZED",
      "session_started", "Session_Started", "session_stopped",
      "canceled", "Canceled", "cancelled", "NoMatch", "custom", "" }

\* kind.lower() on those spellings
KindLower(kind) ==
    CASE kind = "Recognizing" -> "recognizing"
      [] kind = "RECOGNIZED" -> "recognized"
      [] kind = "Session_Started" -> "session_started"
      [] kind = "Canceled" -> "canceled"
      [] kind = "NoMatch" -> "nomatch"
      [] OTHER -> kind

\* a lookup of the kind as it was sent
event_type_of_kind_cased(kind) ==
    CASE kind = "recognizing" -> "partial"
      [] kind = "recognized" -> "final"
      [] kind = "canceled" -> "error"
      [] OTHER -> KindLower(kind)
\* event_type_map.get(kind.lower(), kind.lower())
event_type_of_kind(kind) ==
    CASE KindLower(kind) = "recognizing" -> "partial"
      [] KindLower(kind) = "recognized" -> "final"
      [] KindLower(kind) = "session_started" -> "session_started"
      [] KindLower(kind) = "session_stopped" -> "session_stopped"
      [] KindLower(kind) = "canceled" -> "error"
      [] OTHER -> KindLower(kind)

\* a TranscriptEventRequest: the legacy fields and the v2 fields the model
\* follows; "None", NoneStr and NullTime for a field that is absent
TranscriptEventRequest(Kind, Text, TsUtc, Details, event_type, text, speaker_id) ==
    [Kind |-> Kind, Text |-> Text, TsUtc |-> TsUtc, Details |-> Details,
     event_type |-> event_type, text |-> text, timestamp_utc |-> TsUtc,
     speaker_id |-> speaker_id]

\* stats["v1_events"] += 1 or stats["v2_events"] += 1
count_format(st, is_v1) ==
    IF is_v1 THEN [st EXCEPT !.v1_events = @ + 1]
    ELSE [st EXCEPT !.v2_events = @ + 1]

\* the dictionary normalize_v1_to_v2 returns; t is the time of the call
normalize_v1_to_v2(request, t) ==
    IF request.Kind # "None"
    THEN [event_type |-> event_type_of_kind(request.Kind),
          text |-> request.Text,
          timestamp_utc |-> IF request.TsUtc # NullTime THEN request.TsUtc ELSE t,
          speaker_id |-> NoSpeaker,
          metadata |-> IF request.Details # "None"
                       THEN << "error_details", request.Details >>
                       ELSE << "None" >>]
    ELSE [event_type |-> request.event_type,
          text |-> request.text,
          timestamp_utc |-> IF request.timestamp_utc # NullTime
                            THEN request.timestamp_utc ELSE t,
          speaker_id |-> request.speaker_id,
          metadata |-> << "None" >>]

\* ------------------------------------------------------------------------
\* Responses
\* ------------------------------------------------------------------------
Ok(op) == [op |-> op, ok |-> TRUE, err |-> "None"]
Err(op, code) == [op |-> op, ok |-> FALSE, err |-> code]

Payload(type, sid, eid) == [event_type |-> type, session_id |-> sid, id |-> eid]

\* a map_speaker that takes any role
role_is_valid_any(role) == TRUE
\* map_speaker: role in valid_roles
role_is_valid(role) == role \in ValidRoles

\* ------------------------------------------------------------------------
\* Direct calls of the session manager's methods
\* ------------------------------------------------------------------------
MgrStartSession ==
    /\ Len(past) + 1 < MaxSessions \/ (IsNone(session) /\ Len(past) < MaxSessions)
    /\ past' = mgr_start_past(session, past, now)
    /\ session' = mgr_start_session(session, past, now)
    /\ speaker_roles' = <<>>
    /\ resp' = Ok("mgr.start_session")
    /\ UNCHANGED << state, pipeVars, fixedVars, docs, dispatched, now >>

MgrEndSession ==
    /\ session' = mgr_end_session(session, now)
    /\ resp' = IF IsNone(session) THEN Err("mgr.end_session", "None")
               ELSE Ok("mgr.end_session")
    /\ UNCHANGED << past, speaker_roles, state, pipeVars, fixedVars, docs, dispatched, now >>

MgrMapSpeaker(sp, role) ==
    /\ IF IsNone(session)
       THEN /\ resp' = Err("mgr.map_speaker", "ValueError: No active session")
            /\ UNCHANGED << session, speaker_roles >>
       ELSE IF ~role_is_valid(role)
       THEN /\ resp' = Err("mgr.map_speaker", "ValueError: Invalid role")
            /\ UNCHANGED << session, speaker_roles >>
       ELSE /\ speaker_roles' = DictSet(speaker_roles, sp, role)
            /\ session' = [session EXCEPT !.speaker_mappings =
                               mgr_map_mappings(@, sp, role)]
            /\ resp' = Ok("mgr.map_speaker")
    /\ UNCHANGED << past, state, pipeVars, fixedVars, docs, dispatched, now >>

MgrAddTranscript(e) ==
    /\ IF IsNone(session)
       THEN /\ resp' = Err("mgr.add_transcript", "ValueError: No active session")
            /\ UNCHANGED session
       ELSE /\ Len(session.transcript_events) < MaxEvents
            /\ session' = [session EXCEPT !.transcript_events = Append(@, e)]
            /\ resp' = Ok("mgr.add_transcript")
    /\ UNCHANGED << past, speaker_roles, state, pipeVars, fixedVars, docs, dispatched, now >>

\* seq[k:]: where the slice starts; a negative k counts from the end, and -0
\* is 0
slice_start(len, k) ==
    IF k < 0 THEN (IF len + k < 0 THEN 0 ELSE len + k)
    ELSE (IF k > len THEN len ELSE k)
slice_from(seq, k) == SubSeq(seq, slice_start(Len(seq), k) + 1, Len(seq))

\* get_recent_transcripts(count, final_only): events[-count:] if
\* len(events) > count else events
get_recent_transcripts(s, count, final_only) ==
    IF IsNone(s) THEN <<>>
    ELSE LET events == IF final_only
                       THEN SelectSeq(s.transcript_events,
                                      LAMBDA e : e.event_type = "final")
                       ELSE s.transcript_events
         IN  IF Len(events) > count THEN slice_from(events, 0 - count) ELSE events

MgrGetRecentTranscripts(count, final_only) ==
    /\ resp' = [op |-> "mgr.get_recent_transcripts", ok |-> TRUE, err |-> "None",
                args |-> << count, final_only >>,
                ret |-> get_recent_transcripts(session, count, final_only)]
    /\ UNCHANGED << mgrVars, state, pipeVars, fixedVars, docs, dispatched, now >>

\* time passes
Tick ==
    /\ now < MaxTime
    /\ now' = now + 1
    /\ UNCHANGED << mgrVars, state, pipeVars, fixedVars, docs, dispatched, resp >>

\* ------------------------------------------------------------------------
\* Session endpoints of the sink (transcript_sink.py)
\* ------------------------------------------------------------------------
\* a start endpoint without its first check
already_active_unchecked == FALSE
\* the first check of POST /session/start: SessionAlreadyActiveError
already_active == is_active

\* POST /session/start.  Nothing in it suspends before dispatch_all is entered.
StartSession(product_mismatch, candidate_speaker_id) ==
    IF already_active \/ product_mismatch
    THEN UNCHANGED << mgrVars, state, pipeVars, fixedVars, docs, dispatched, now >>
    ELSE LET started == mgr_start_session(session, past, now)
             sid == started.session_id
         IN  /\ sid <= MaxSessions
             /\ state' = reset(state)
             /\ past' = mgr_start_past(session, past, now)
             /\ IF candidate_speaker_id # NoSpeaker
                THEN /\ speaker_roles' = DictSet(<<>>, candidate_speaker_id, "candidate")
                     /\ session' = [started EXCEPT !.speaker_mappings =
                                        mgr_map_mappings(@, candidate_speaker_id, "candidate")]
                ELSE /\ speaker_roles' = <<>>
                     /\ session' = started
             /\ docs' = write_analysis(docs, sid,
                           SessionAnalysis(sid, NullTime, <<>>, snapshot(reset(state))))
             /\ dispatched' = dispatched \cup {Payload("session_started", sid, 0)}
             /\ UNCHANGED << pipeVars, fixedVars, now >>

\* its response: 409, 400 or 200
start_session_response(product_mismatch) ==
    IF already_active THEN Err("start_session", "SESSION_ALREADY_ACTIVE")
    ELSE IF product_mismatch THEN Err("start_session", "PRODUCT_MISMATCH")
    ELSE Ok("start_session")

\* a finalization that builds the document anew instead of loading it
finalize_analysis_fresh(doc, ended_at, checklist) ==
    SessionAnalysis(doc.session_id, ended_at, <<>>, checklist)
\* the loaded document with its end time and the checklist snapshot set
finalize_analysis(doc, ended_at, checklist) ==
    [doc EXCEPT !.ended_at = ended_at, !.checklist_state = checklist]

\* POST /session/end
EndSession ==
    IF ~is_active
    THEN UNCHANGED << mgrVars, state, pipeVars, fixedVars, docs, dispatched, now >>
    ELSE LET sid == session.session_id
         IN  /\ session' = mgr_end_session(session, now)
             /\ docs' = IF HasDoc(docs, sid)
                        THEN write_analysis(docs, sid,
                                finalize_analysis(load_analysis(docs, sid).doc, now,
                                                  snapshot(state)))
                        ELSE docs
             /\ dispatched' = dispatched \cup {Payload("session_ended", sid, 0)}
             /\ UNCHANGED << past, speaker_roles, state, pipeVars, fixedVars, now >>

end_session_response ==
    IF ~is_active THEN Err("end_session", "SESSION_NOT_ACTIVE") ELSE Ok("end_session")

\* POST /session/map-speaker; role is a SpeakerRole, "unknown" included
MapSpeaker(sp, role) ==
    /\ IF ~is_active \/ ~role_is_valid(role)
       THEN UNCHANGED << session, speaker_roles >>
       ELSE /\ speaker_roles' = DictSet(speaker_roles, sp, role)
            /\ session' = [session EXCEPT !.speaker_mappings =
                               mgr_map_mappings(@, sp, role)]
    /\ UNCHANGED << past, state, pipeVars, fixedVars, docs, dispatched, now >>

\* SessionNotActiveError, or the ValueError of the manager as a 500
map_speaker_response(role) ==
    IF ~is_active THEN Err("map_speaker", "SESSION_NOT_ACTIVE")
    ELSE IF ~role_is_valid(role) THEN Err("map_speaker", "INTERNAL_ERROR")
    ELSE Ok("map_speaker")

\* ------------------------------------------------------------------------
\* Events
\* ------------------------------------------------------------------------
TranscriptEvent(id, type, text, sp) ==
    [id |-> id, event_type |-> type, text |-> text, speaker_id |-> sp]

\* the requests the model feeds the sink
EventInputs ==
    { <<"final", <<"Introduce">>, "speaker_1">>,
      <<"final", <<"introduce">>, "speaker_0">>,
      <<"final", NoneStr, "speaker_1">>,
      <<"final", <<>>, "speaker_1">>,
      <<"partial", <<"hello">>, "speaker_1">>,
      <<"session_started", NoneStr, NoSpeaker>>,
      <<"error", NoneStr, NoSpeaker>> }

\* what the checklist tool collaborator names: CHECKLIST_ITEMS of checklist.py
ToolItems == {"Intro", "Background"}

NoEvent == TranscriptEvent(0, "None", NoneStr, NoSpeaker)

\* the events the model hands to add_transcript directly
MgrEventInputs ==
    { <<"final", <<"Introduce">>, "speaker_1">>,
      <<"partial", <<"hello">>, "speaker_0">> }

\* the state after the lifespan's startup
InitCommon ==
    /\ session = NoSessionObj
    /\ past = <<>>
    /\ speaker_roles = <<>>
    /\ state = ResetState
    /\ transcript_queue = <<>>
    /\ agent_queue = <<>>
    /\ events_received = 0
    /\ req = <<>>
    /\ worker = [pc |-> "get", event |-> NoEvent]
    /\ docs = <<>>
    /\ dispatched = {}
    /\ analyze_calls = [i \in 1..MaxEvents |-> 0]
    /\ failed_calls = {}
    /\ put_log = <<>>
    /\ writing = NoWrite
    /\ loaded = NotLoaded
    /\ call = NoCall
    /\ publisher = NewPublisher
    /\ queues = <<>>
    /\ tasks = [t \in Tasks |-> IdleTask]
    /\ published = 0
    /\ stats = [v1_events |-> 0, v2_events |-> 0]
    /\ resp = Ok("init")
    /\ now = 1

\* ------------------------------------------------------------------------
\* POST /transcript: receive_transcript (transcript_sink.py)
\* ------------------------------------------------------------------------
serving == worker.pc # "cancelled"

SetPc(k, pc) == [req EXCEPT ![k].pc = pc]
\* the same, noting the session the event was recorded in
SetPcIn(k, pc, sid) == [req EXCEPT ![k].pc = pc, ![k].sid = sid]

\* on_transcript, then the put on the general queue, then the 200 response
PutGeneral(k, e) ==
    /\ transcript_queue' = Append(transcript_queue, e)
    /\ req' = SetPc(k, "ok")

InFlight == {k \in 1..Len(req) : req[k].pc \notin {"ok", "failed"}}

\* up to the first await: normalise, count, branch on the event type
ReceiveTranscript(i) ==
    LET e == TranscriptEvent(events_received + 1, i[1], i[2], i[3])
    IN  /\ serving
        /\ events_received < MaxEvents
        /\ Cardinality(InFlight) < MaxInFlight
        /\ events_received' = events_received + 1
        /\ IF e.event_type \in {"final", "session_started", "session_stopped"}
           THEN /\ req' = Append(req, [event |-> e, pc |-> "save", sid |-> NoSession])
                /\ UNCHANGED transcript_queue
           ELSE /\ req' = Append(req, [event |-> e, pc |-> "ok", sid |-> NoSession])
                /\ transcript_queue' = Append(transcript_queue, e)
        /\ stats' = count_format(stats, FALSE)
        /\ UNCHANGED << mgrVars, state, agent_queue, worker, analyze_calls, failed_calls,
                        put_log, analyzer, writing, loaded, routes, call, pubVars,
                        docs, dispatched, resp, now >>

speaker_role_of(e) ==
    IF e.speaker_id # NoSpeaker /\ get_speaker_role(e.speaker_id) # "None"
    THEN get_speaker_role(e.speaker_id)
    ELSE "unknown"

\* a refresh that builds the document anew instead of loading it
refresh_checklist_fresh(doc, checklist) ==
    SessionAnalysis(doc.session_id, NullTime, <<>>, checklist)
\* the loaded document with the checklist snapshot replaced
refresh_checklist(doc, checklist) == [doc EXCEPT !.checklist_state = checklist]

\* the checklist snapshot refresh of the session's document and the hand-over
\* of the transcript payload to the routes (the file system works)
RefreshAndDispatch(k, st) ==
    LET sid == session.session_id
    IN  IF IsNone(session)
        THEN UNCHANGED << docs, dispatched >>
        ELSE /\ docs' = IF HasDoc(docs, sid)
                        THEN write_analysis(docs, sid,
                                refresh_checklist(load_analysis(docs, sid).doc,
                                                  snapshot(st)))
                        ELSE docs
             /\ dispatched' = dispatched \cup {Payload("transcript", sid, req[k].event.id)}

\* save_transcript_to_file returned: record the event, run the heuristic, and
\* call the checklist tool collaborator (only for a text that is not empty)
AfterSave(k) ==
    LET e == req[k].event
        recorded == [session EXCEPT !.transcript_events = Append(@, e)]
    IN  /\ serving
        /\ k \in 1..Len(req)
        /\ req[k].pc = "save"
        /\ IF e.event_type = "final" /\ is_active
           THEN IF Truthy(e.text)
                THEN /\ session' = recorded
                     /\ state' = apply_talestral_heuristic(state, e.text,
                                                           speaker_role_of(e), now)
                     /\ req' = SetPcIn(k, "tool", session.session_id)
                     /\ UNCHANGED << transcript_queue, docs, dispatched >>
                ELSE /\ session' = recorded
                     /\ RefreshAndDispatch(k, state)
                     /\ req' = SetPcIn(k, "dispatch", session.session_id)
                     /\ UNCHANGED << transcript_queue, state >>
           ELSE /\ PutGeneral(k, e)
                /\ UNCHANGED << session, state, docs, dispatched >>
        /\ UNCHANGED << past, speaker_roles, agent_queue, events_received, worker,
                        analyze_calls, failed_calls, put_log, fixedVars, resp, now >>

\* the collaborator calls the update_checklist tool while the request waits
ToolCallback(k, item, status) ==
    /\ serving
    /\ k \in 1..Len(req)
    /\ req[k].pc = "tool"
    /\ update_applies(state, item, status)
    /\ state' = update(state, item, status, "tool call", "tool", now)
    /\ UNCHANGED << mgrVars, pipeVars, fixedVars, docs, dispatched, resp, now >>

\* analyze_for_checklist returned (item "None": no proposal): apply the
\* proposal, then refresh the document and dispatch
AfterTool(k, item) ==
    LET st == IF item = "None" THEN state
              ELSE update(state, item, ANALYZING, "tool call", "tool", now)
    IN  /\ serving
        /\ k \in 1..Len(req)
        /\ req[k].pc = "tool"
        /\ state' = st
        /\ RefreshAndDispatch(k, st)
        /\ req' = SetPc(k, "dispatch")
        /\ UNCHANGED << mgrVars, transcript_queue, agent_queue, events_received, worker,
                        analyze_calls, failed_calls, put_log, fixedVars, resp, now >>

\* a sink that queues whatever it recorded
queue_for_agent_any(e) == TRUE
\* whether receive_transcript queues the event for the agent
queue_for_agent(e) ==
    /\ get_candidate_speaker_id # NoSpeaker
    /\ e.speaker_id = get_candidate_speaker_id

\* a hand-over that waits for the worker to be idle
put_blocks_while_busy(q) == worker.pc = "analyze"
\* asyncio.Queue() has no maxsize: put never waits
put_blocks(q) == FALSE

\* dispatch_all returned: queue for the agent, log, then the general queue
AfterDispatch(k) ==
    LET e == req[k].event
    IN  /\ serving
        /\ k \in 1..Len(req)
        /\ req[k].pc = "dispatch"
        /\ queue_for_agent(e) => ~put_blocks(agent_queue)
        /\ IF queue_for_agent(e)
           THEN /\ agent_queue' = Append(agent_queue, e)
                /\ put_log' = Append(put_log, e.id)
           ELSE UNCHANGED << agent_queue, put_log >>
        /\ IF queue_for_agent(e) /\ e.text = NoneStr
           THEN \* event.text[:50] on None: TypeError, the request ends in a 500
                /\ req' = SetPc(k, "failed")
                /\ UNCHANGED transcript_queue
           ELSE PutGeneral(k, e)
        /\ UNCHANGED << mgrVars, state, events_received, worker, analyze_calls,
                        failed_calls, fixedVars, docs, dispatched, resp, now >>

\* ------------------------------------------------------------------------
\* agent_processing_loop (transcript_sink.py)
\* ------------------------------------------------------------------------
\* the scores of an item: 0.5 and 0.5 for the fallback item of a failed
\* analysis, and one pair standing for what the analyzer returns
KindScores(kind) == IF kind = "fallback" THEN << 5, 5 >> ELSE << 8, 9 >>

AnalysisItem(e, kind) ==
    [src |-> e.id, kind |-> kind,
     relevance_score |-> KindScores(kind)[1], clarity_score |-> KindScores(kind)[2]]

\* a queue that hands out its newest entry
queue_get_newest(q) == << q[Len(q)], SubSeq(q, 1, Len(q) - 1) >>
\* asyncio.Queue.get: the oldest entry, and what stays queued
queue_get(q) == << Head(q), Tail(q) >>

\* a loop that analyzes whatever it dequeued
should_analyze_always(e) == Truthy(e.text)
\* whether the loop analyzes the event it dequeued
should_analyze(e) == Truthy(e.text) /\ analyzer /\ is_active

\* agent_queue.get() returned
WorkerGet ==
    LET e == queue_get(agent_queue)[1]
    IN  /\ worker.pc = "get"
        /\ agent_queue # <<>>
        /\ agent_queue' = queue_get(agent_queue)[2]
        /\ IF should_analyze(e)
           THEN /\ worker' = [pc |-> "analyze", event |-> e]
                /\ analyze_calls' = [analyze_calls EXCEPT ![e.id] = @ + 1]
           ELSE UNCHANGED << worker, analyze_calls >>
        /\ UNCHANGED << mgrVars, state, transcript_queue, events_received, req,
                        failed_calls, put_log, fixedVars, docs, dispatched, resp, now >>

\* a loop that an exception ends
after_failure_exits(pub_fail) == "exited"
\* where the loop is after an exception: the inner handler logs and publishes
\* the error; if publishing raises too, the outer handler sleeps a second
after_failure(pub_fail) == IF pub_fail THEN "sleep" ELSE "get"

\* analyze_async returned or raised.  outcome "ok": the model answered;
\* "fallback": Runner.run failed and analyze_async returned its fallback item;
\* "raise": analyze_async raised.  fs_fail: append_item raises.  pub_fail:
\* publish_error raises inside the handler of the first exception.
WorkerAnalyzed(outcome, fs_fail, pub_fail) ==
    LET e == worker.event
        sid == session.session_id
        item == AnalysisItem(e, IF outcome = "ok" THEN "analysis" ELSE "fallback")
    IN  /\ worker.pc = "analyze"
        /\ failed_calls' = IF outcome = "ok" THEN failed_calls
                           ELSE failed_calls \cup {e.id}
        /\ IF outcome = "raise" \/ (fs_fail /\ ~IsNone(session))
           THEN /\ outcome = "raise" => ~fs_fail
                /\ worker' = [pc |-> after_failure(pub_fail), event |-> NoEvent]
                /\ UNCHANGED << docs, dispatched >>
           ELSE IF IsNone(session)
           THEN /\ ~fs_fail /\ ~pub_fail
                /\ worker' = [pc |-> "get", event |-> NoEvent]
                /\ UNCHANGED << docs, dispatched >>
           ELSE /\ ~pub_fail
                /\ docs' = append_item(docs, sid, item, snapshot(state))
                /\ dispatched' = dispatched \cup {Payload("analysis", sid, e.id)}
                /\ worker' = [pc |-> "dispatch", event |-> e]
        /\ UNCHANGED << mgrVars, state, transcript_queue, agent_queue, events_received,
                        req, analyze_calls, put_log, fixedVars, resp, now >>

\* dispatch_all returned: next round of the loop
WorkerDispatched ==
    /\ worker.pc = "dispatch"
    /\ worker' = [pc |-> "get", event |-> NoEvent]
    /\ UNCHANGED << mgrVars, state, transcript_queue, agent_queue, events_received,
                    req, analyze_calls, failed_calls, put_log, fixedVars, docs,
                    dispatched, resp, now >>

\* asyncio.sleep(1) of the outer handler returned
WorkerWake ==
    /\ worker.pc = "sleep"
    /\ worker' = [pc |-> "get", event |-> NoEvent]
    /\ UNCHANGED << mgrVars, state, transcript_queue, agent_queue, events_received,
                    req, analyze_calls, failed_calls, put_log, fixedVars, docs,
                    dispatched, resp, now >>

\* a loop whose handlers take the cancellation for one more failure
on_cancel_swallowed(w) == [pc |-> "sleep", event |-> NoEvent]
\* CancelledError at the await the worker is in: except CancelledError: break,
\* or, from the sleep of the outer handler, out of the loop uncaught
on_cancel(w) == [pc |-> "cancelled", event |-> NoEvent]

\* lifespan shutdown: agent_task.cancel() at whatever await the worker is in
Shutdown ==
    /\ worker.pc \in {"get", "analyze", "dispatch", "sleep"}
    /\ worker' = on_cancel(worker)
    /\ UNCHANGED << mgrVars, state, transcript_queue, agent_queue, events_received,
                    req, analyze_calls, failed_calls, put_log, fixedVars, docs,
                    dispatched, resp, now >>

\* ------------------------------------------------------------------------
\* The sink: endpoints and worker as concurrent tasks
\* ------------------------------------------------------------------------
Init == InitCommon /\ analyzer \in BOOLEAN /\ routes = DefaultRoutes

Next ==
    \/ \E pm \in BOOLEAN, c \in {"speaker_1", NoSpeaker} :
          serving /\ StartSession(pm, c) /\ UNCHANGED resp
    \/ serving /\ EndSession /\ UNCHANGED resp
    \/ \E role \in ValidRoles : serving /\ MapSpeaker("speaker_1", role) /\ UNCHANGED resp
    \/ \E i \in EventInputs : ReceiveTranscript(i)
    \/ \E k \in 1..MaxEvents : AfterSave(k)
    \/ \E k \in 1..MaxEvents, item \in ToolItems, status \in {ANALYZING, COMPLETE} :
          ToolCallback(k, item, status)
    \/ \E k \in 1..MaxEvents, item \in ToolItems \cup {"None"} : AfterTool(k, item)
    \/ \E k \in 1..MaxEvents : AfterDispatch(k)
    \/ WorkerGet
    \/ \E o \in {"ok", "fallback", "raise"}, f \in BOOLEAN, p \in BOOLEAN :
          WorkerAnalyzed(o, f, p)
    \/ WorkerDispatched
    \/ WorkerWake
    \/ Shutdown

Spec == Init /\ [][Next]_vars

\* The sink with a worker that has its analyzer, whose collaborator answers,
\* whose file system works and which is not cancelled.  The event loop runs
\* every task that is ready: each step of the worker, once enabled, is taken.
InitLive == InitCommon /\ analyzer = TRUE /\ routes = DefaultRoutes

WorkerStep == WorkerGet \/ WorkerAnalyzed("ok", FALSE, FALSE) \/ WorkerDispatched

NextLive ==
    \/ \E pm \in BOOLEAN, c \in {"speaker_1", NoSpeaker} :
          StartSession(pm, c) /\ UNCHANGED resp
    \/ EndSession /\ UNCHANGED resp
    \/ \E role \in ValidRoles : MapSpeaker("speaker_1", role) /\ UNCHANGED resp
    \/ \E i \in EventInputs : ReceiveTranscript(i)
    \/ \E k \in 1..MaxEvents : AfterSave(k)
    \/ \E k \in 1..MaxEvents, item \in ToolItems, status \in {ANALYZING, COMPLETE} :
          ToolCallback(k, item, status)
    \/ \E k \in 1..MaxEvents, item \in ToolItems \cup {"None"} : AfterTool(k, item)
    \/ \E k \in 1..MaxEvents : AfterDispatch(k)
    \/ WorkerStep

SpecLive == InitLive /\ [][NextLive]_vars /\ WF_vars(WorkerStep)

\* ------------------------------------------------------------------------
\* The session manager under its callers
\* ------------------------------------------------------------------------
InitSession == InitCommon /\ analyzer = TRUE /\ routes = DefaultRoutes

NextSession ==
    \/ MgrStartSession
    \/ MgrEndSession
    \/ \E sp \in Speakers, role \in ValidRoles \cup {"invalid_role"} : MgrMapSpeaker(sp, role)
    \/ \E i \in MgrEventInputs : MgrAddTranscript(TranscriptEvent(0, i[1], i[2], i[3]))
    \/ \E pm \in BOOLEAN, c \in Speakers \cup {NoSpeaker} :
          StartSession(pm, c) /\ resp' = start_session_response(pm)
    \/ EndSession /\ resp' = end_session_response
    \/ \E sp \in Speakers, role \in ValidRoles \cup {"unknown"} :
          MapSpeaker(sp, role) /\ resp' = map_speaker_response(role)
    \/ Tick

SpecSession == InitSession /\ [][NextSession]_vars

\* ------------------------------------------------------------------------
\* The session manager's transcript queries under a caller that records
\* events, each with its own id, and asks for the recent ones
\* ------------------------------------------------------------------------
RecentCounts == 0..(MaxEvents + 1)

NextEventId == IF IsNone(session) THEN 1 ELSE Len(session.transcript_events) + 1

InitRecent == InitCommon /\ analyzer = TRUE /\ routes = DefaultRoutes

NextRecent ==
    \/ MgrStartSession
    \/ MgrEndSession
    \/ \E i \in MgrEventInputs :
          MgrAddTranscript(TranscriptEvent(NextEventId, i[1], i[2], i[3]))
    \/ \E count \in RecentCounts, final_only \in BOOLEAN :
          MgrGetRecentTranscripts(count, final_only)

SpecRecent == InitRecent /\ [][NextRecent]_vars

\* ------------------------------------------------------------------------
\* The output store taken by itself: AnalysisOutputWriter under its callers
\* and a reader of the files (the Streamlit UI, or a later load)
\* ------------------------------------------------------------------------
\* the documents the model hands to write_analysis
StoreAnalyses(sid) ==
    { SessionAnalysis(sid, ended, items, snapshot(ResetState)) :
        ended \in {NullTime, 1},
        items \in { <<>>, << AnalysisItem([id |-> 1], "analysis") >> } }

\* write_analysis up to open(output_path, "w"): the file is emptied
StoreWriteOpen(sid, analysis) ==
    /\ writing = NoWrite
    /\ writing' = [sid |-> sid, data |-> write_analysis(docs, sid, analysis)[sid]]
    /\ docs' = (sid :> Truncated) @@ docs
    /\ resp' = Ok("write_analysis")
    /\ UNCHANGED << mgrVars, state, pipeVars, analyzer, pubVars, normVars, routes, call, loaded, dispatched, now >>

\* append_item up to open(output_path, "w"): the load, the append, then the
\* file is emptied; a file that is not valid JSON raises OutputReadError
StoreAppendOpen(sid, item) ==
    /\ writing = NoWrite
    /\ IF HasDoc(docs, sid) /\ IsTruncated(docs[sid])
       THEN /\ resp' = Err("append_item", "OutputReadError")
            /\ UNCHANGED << docs, writing >>
       ELSE /\ HasDoc(docs, sid) => Len(docs[sid].analysis_items) < MaxEvents
            /\ writing' = [sid |-> sid,
                           data |-> append_item(docs, sid, item, snapshot(ResetState))[sid]]
            /\ docs' = (sid :> Truncated) @@ docs
            /\ resp' = Ok("append_item")
    /\ UNCHANGED << mgrVars, state, pipeVars, analyzer, pubVars, normVars, routes, call, loaded, dispatched, now >>

\* json.dump wrote everything and the file was closed
StoreWriteDone ==
    /\ writing # NoWrite
    /\ docs' = (writing.sid :> writing.data) @@ docs
    /\ writing' = NoWrite
    /\ UNCHANGED << mgrVars, state, pipeVars, analyzer, pubVars, normVars, routes, call, loaded, dispatched,
                    resp, now >>

\* the write stopped part-way: an OSError out of json.dump (OutputWriteError),
\* or the process was stopped
StoreWriteInterrupted ==
    /\ writing # NoWrite
    /\ writing' = NoWrite
    /\ resp' = Err("write", "OutputWriteError")
    /\ UNCHANGED << mgrVars, state, pipeVars, analyzer, pubVars, normVars, routes, call, loaded, docs,
                    dispatched, now >>

\* a reader loads the document of a session
StoreLoad(sid) ==
    /\ loaded' = load_analysis(docs, sid)
    /\ UNCHANGED << mgrVars, state, pipeVars, analyzer, pubVars, normVars, routes, call, writing, docs,
                    dispatched, resp, now >>

InitStore == InitCommon /\ analyzer = TRUE /\ routes = DefaultRoutes

NextStore ==
    \/ \E sid \in 1..MaxSessions :
          \E analysis \in StoreAnalyses(sid) : StoreWriteOpen(sid, analysis)
    \/ \E sid \in 1..MaxSessions, n \in 1..MaxEvents :
          StoreAppendOpen(sid, AnalysisItem([id |-> n], "analysis"))
    \/ StoreWriteDone
    \/ StoreWriteInterrupted
    \/ \E sid \in 1..MaxSessions : StoreLoad(sid)

SpecStore == InitStore /\ [][NextStore]_vars

\* ------------------------------------------------------------------------
\* The route orchestrator taken by itself
\* ------------------------------------------------------------------------
\* the configurations: up to MaxRoutes routes of either type, ids in order
RouteConfigs ==
    UNION { [1..n -> RouteTypes] : n \in 0..MaxRoutes }

\* dispatch_all is called
DispatchAllCalled ==
    /\ call.pc \in {"idle", "returned"}
    /\ call' = [pc |-> IF Len(routes) = 0 THEN "returned" ELSE "running",
                results |-> <<>>, outcomes |-> <<>>]
    /\ UNCHANGED << mgrVars, state, pipeVars, analyzer, pubVars, normVars, writing, loaded, routes, docs,
                    dispatched, resp, now >>

\* the dispatch of the next route returned
RouteDispatched(outcome) ==
    LET route == routes[Len(call.results) + 1]
    IN  /\ call.pc = "running"
        /\ route.route_type = "ui_stream" => outcome = [status |-> 200, raised |-> FALSE]
        /\ call' = dispatch_all_collect(call, Len(routes),
                                        route_dispatch(route, outcome), outcome)
        /\ UNCHANGED << mgrVars, state, pipeVars, analyzer, pubVars, normVars, writing, loaded, routes,
                        docs, dispatched, resp, now >>

\* the product specs: one to MaxRoutes declared routes
ProductRoutes ==
    UNION { [1..n -> OutputRouteTypes \X BOOLEAN] : n \in 1..MaxRoutes }

\* ROUTES = build_route_orchestrator(PRODUCT_SPEC), once, when the module is
\* loaded and before anything is dispatched: the name is bound only if the
\* build returns
BuildRouteOrchestrator(decl) ==
    LET spec_routes == [i \in 1..Len(decl) |-> OutputRouteSpec(i, decl[i][1], decl[i][2])]
        built == build_route_orchestrator(spec_routes)
    IN  /\ call = NoCall
        /\ resp.op = "init"
        /\ routes' = IF built.ok THEN built.routes ELSE routes
        /\ resp' = [op |-> "build_route_orchestrator", ok |-> built.ok,
                    err |-> built.err, args |-> spec_routes]
        /\ UNCHANGED << mgrVars, state, pipeVars, analyzer, pubVars, normVars, writing, loaded, call,
                        docs, dispatched, now >>

InitRoutes ==
    /\ InitCommon
    /\ analyzer = TRUE
    /\ \E types \in RouteConfigs :
          routes = [i \in 1..Len(types) |-> Route(i, types[i])]

NextRoutes ==
    \/ \E decl \in ProductRoutes : BuildRouteOrchestrator(decl)
    \/ DispatchAllCalled
    \/ \E outcome \in HttpOutcomes : RouteDispatched(outcome)

SpecRoutes == InitRoutes /\ [][NextRoutes]_vars

\* ------------------------------------------------------------------------
\* The checklist state manager taken by itself
\* ------------------------------------------------------------------------
UpdateItems == {"intro", "Experience", "Background", ""}
UpdateStatuses == ChecklistStatus \cup {"done"}
UpdateSources == {"agent", "manual"}
HeuristicTexts ==
    { <<"Introduce">>, <<"experience", "introduce">>, <<"scale">>, <<"hello">>,
      <<>> }
HeuristicRoles == {"candidate", "interviewer", "unknown"}

\* what a call of the manager returned, with the arguments it was given
Returned(op, ret, args) == [op |-> op, ok |-> ret, err |-> "None", args |-> args]

\* update(item, status, reason, source)
ChecklistUpdate(item, status, source) ==
    /\ state' = update(state, item, status, "reason given", source, now)
    /\ resp' = Returned("update", update_applies(state, item, status),
                        << item, status, source >>)
    /\ UNCHANGED << mgrVars, pipeVars, fixedVars, docs, dispatched, now >>

\* apply_talestral_heuristic(text, speaker_role)
ChecklistHeuristic(text, speaker_role) ==
    /\ state' = apply_talestral_heuristic(state, text, speaker_role, now)
    /\ resp' = Returned("apply_talestral_heuristic",
                        /\ heuristic_target(state, text, speaker_role) # "None"
                        /\ update_applies(state, Definitions[FirstMatch(text)].id,
                                          heuristic_target(state, text, speaker_role)),
                        << text, speaker_role >>)
    /\ UNCHANGED << mgrVars, pipeVars, fixedVars, docs, dispatched, now >>

\* reset()
ChecklistReset ==
    /\ state' = reset(state)
    /\ resp' = Returned("reset", TRUE, << >>)
    /\ UNCHANGED << mgrVars, pipeVars, fixedVars, docs, dispatched, now >>

\* snapshot()
ChecklistSnapshot ==
    /\ state' = snapshot_state(state)
    /\ resp' = Returned("snapshot", TRUE, snapshot_rows(state))
    /\ UNCHANGED << mgrVars, pipeVars, fixedVars, docs, dispatched, now >>

InitChecklist == InitCommon /\ analyzer = TRUE /\ routes = DefaultRoutes

NextChecklist ==
    \/ \E item \in UpdateItems, status \in UpdateStatuses, source \in UpdateSources :
          ChecklistUpdate(item, status, source)
    \/ \E text \in HeuristicTexts, speaker_role \in HeuristicRoles :
          ChecklistHeuristic(text, speaker_role)
    \/ ChecklistReset
    \/ ChecklistSnapshot
    \/ Tick

SpecChecklist == InitChecklist /\ [][NextChecklist]_vars

\* ------------------------------------------------------------------------
\* The output writer called by one caller, over a directory that may hold
\* files the writer did not write
\* ------------------------------------------------------------------------
\* the items handed to the writer: two, with different scores
WriterItem(n) ==
    [src |-> n, kind |-> "analysis",
     relevance_score |-> 3 * n, clarity_score |-> 10 - 2 * n]
WriterItemIds == {1, 2}

\* the analyses handed to write_analysis: as constructed, and with aggregates
\* that do not fit the items
WriterAnalyses(sid) ==
    LET made == { SessionAnalysis(sid, NullTime, items, snapshot(ResetState)) :
                    items \in { << >>, << WriterItem(2) >>,
                                << WriterItem(2), WriterItem(1) >> } }
    IN  made \cup { [a EXCEPT !.total_responses_analyzed = 7,
                              !.overall_relevance = << 1, 1 >>,
                              !.overall_clarity = << 1, 10 >>] : a \in made }

ForeignFiles ==
    { Truncated, JsonArray, EmptyObject,
      PartialObject(<< >>, TRUE), PartialObject(<< >>, FALSE) }

\* how a write to the file ends: well, with an OSError from open (the file is
\* as it was), or with an OSError from json.dump (the file is cut short)
WriteEnds == {"ok", "open fails", "dump fails"}

written(ds, new, sid, ends) ==
    IF ends = "ok" THEN new
    ELSE IF ends = "open fails" THEN ds
    ELSE (sid :> Truncated) @@ ds

\* write_analysis(session_id, analysis)
WriterWrite(sid, analysis, ends) ==
    /\ docs' = written(docs, write_analysis(docs, sid, analysis), sid, ends)
    /\ resp' = IF ends = "ok" THEN Returned("write_analysis", TRUE, << sid, analysis >>)
               ELSE Err("write_analysis", "OutputWriteError")
    /\ loaded' = NotLoaded
    /\ UNCHANGED << mgrVars, state, pipeVars, analyzer, pubVars, normVars, routes, call, writing,
                    dispatched, now >>

\* append_item(session_id, item, checklist_state)
WriterAppend(sid, item, ends) ==
    /\ (HasDoc(docs, sid) /\ "analysis_items" \in DOMAIN docs[sid])
          => Len(docs[sid].analysis_items) < MaxItems
    /\ IF append_item_raises(docs, sid) # "None"
       THEN /\ ends = "ok"
            /\ resp' = Err("append_item", append_item_raises(docs, sid))
            /\ docs' = docs
       ELSE /\ docs' = written(docs, append_item(docs, sid, item, snapshot(ResetState)),
                               sid, ends)
            /\ resp' = IF ends = "ok" THEN Returned("append_item", TRUE, << sid, item >>)
                       ELSE Err("append_item", "OutputWriteError")
    /\ loaded' = NotLoaded
    /\ UNCHANGED << mgrVars, state, pipeVars, analyzer, pubVars, normVars, routes, call, writing,
                    dispatched, now >>

\* load_analysis(session_id)
WriterLoad(sid) ==
    /\ loaded' = load_analysis(docs, sid)
    /\ resp' = Returned("load_analysis", TRUE, << sid >>)
    /\ UNCHANGED << mgrVars, state, pipeVars, analyzer, pubVars, normVars, routes, call, writing, docs,
                    dispatched, now >>

\* a file of the directory is put there, or damaged, by something else
ForeignFile(sid, content) ==
    /\ docs' = (sid :> content) @@ docs
    /\ resp' = Ok("foreign file")
    /\ loaded' = NotLoaded
    /\ UNCHANGED << mgrVars, state, pipeVars, analyzer, pubVars, normVars, routes, call, writing,
                    dispatched, now >>

InitWriter == InitCommon /\ analyzer = TRUE /\ routes = DefaultRoutes

NextWriter ==
    \/ \E sid \in 1..MaxSessions, ends \in WriteEnds :
          \E analysis \in WriterAnalyses(sid) : WriterWrite(sid, analysis, ends)
    \/ \E sid \in 1..MaxSessions, n \in WriterItemIds, ends \in WriteEnds :
          WriterAppend(sid, WriterItem(n), ends)
    \/ \E sid \in 1..MaxSessions : WriterLoad(sid)
    \/ \E sid \in 1..MaxSessions, content \in ForeignFiles : ForeignFile(sid, content)

SpecWriter == InitWriter /\ [][NextWriter]_vars

\* ------------------------------------------------------------------------
\* The thought publisher under tasks that call it concurrently.  A call is
\* followed from one await to the next: the lock, then each queue.put.
\* ------------------------------------------------------------------------
pubRest == << mgrVars, state, pipeVars, analyzer, normVars, writing, loaded, routes, call,
              docs, dispatched, resp, now >>

\* publish, up to its first put: takes the lock and stores the thought
PublishEnter(t) ==
    /\ tasks[t].pc = "idle"
    /\ published < MaxThoughts
    /\ lock_free(publisher)
    /\ published' = published + 1
    /\ publisher' = [publisher EXCEPT
                        !.lock = t,
                        !.history = trim_history(Append(@, published + 1))]
    /\ tasks' = [tasks EXCEPT ![t] = [pc |-> "publish", i |-> 1,
                                      thought |-> published + 1, queue |-> 0]]
    /\ UNCHANGED << queues, pubRest >>

\* publish: the next queue of for queue in self._subscribers, or, after the
\* last, the end of the async with
PublishPut(t) ==
    /\ tasks[t].pc = "publish"
    /\ IF tasks[t].i <= Len(publisher.subscribers)
       THEN /\ queues' = queue_put(queues, publisher.subscribers[tasks[t].i],
                                   tasks[t].thought)
            /\ tasks' = [tasks EXCEPT ![t].i = @ + 1]
            /\ UNCHANGED publisher
       ELSE /\ publisher' = [publisher EXCEPT !.lock = NoTask]
            /\ tasks' = [tasks EXCEPT ![t] = IdleTask]
            /\ UNCHANGED queues
    /\ UNCHANGED << published, pubRest >>

\* subscribe, up to its first put: makes the queue, takes the lock and
\* appends the queue to the subscribers
SubscribeEnter(t) ==
    LET q == Len(queues) + 1
    IN  /\ tasks[t].pc = "idle"
        /\ Len(queues) < MaxSubscribers
        /\ lock_free(publisher)
        /\ queues' = Append(queues, NewQueue(published - Len(publisher.history) + 1))
        /\ publisher' = [publisher EXCEPT !.lock = t, !.subscribers = Append(@, q)]
        /\ tasks' = [tasks EXCEPT ![t] = [pc |-> "subscribe", i |-> 1,
                                          thought |-> 0, queue |-> q]]
        /\ UNCHANGED << published, pubRest >>

\* subscribe: the next thought of for thought in self._history, or, after
\* the last, the end of the async with and the return of the queue
SubscribePut(t) ==
    /\ tasks[t].pc = "subscribe"
    /\ IF tasks[t].i <= Len(publisher.history)
       THEN /\ queues' = queue_put(queues, tasks[t].queue,
                                   publisher.history[tasks[t].i])
            /\ tasks' = [tasks EXCEPT ![t].i = @ + 1]
            /\ UNCHANGED publisher
       ELSE /\ publisher' = [publisher EXCEPT !.lock = NoTask]
            /\ tasks' = [tasks EXCEPT ![t] = IdleTask]
            /\ UNCHANGED queues
    /\ UNCHANGED << published, pubRest >>

\* unsubscribe: nothing in its async with suspends
Unsubscribe(t, q) ==
    /\ tasks[t].pc = "idle"
    /\ q \in 1..Len(queues)
    /\ lock_free(publisher)
    /\ publisher' = [publisher EXCEPT
                        !.subscribers = SelectSeq(@, LAMBDA s : s # q)]
    /\ UNCHANGED << queues, tasks, published, pubRest >>

InitPublisher == InitCommon /\ analyzer = TRUE /\ routes = DefaultRoutes

NextPublisher ==
    \/ \E t \in Tasks : PublishEnter(t)
    \/ \E t \in Tasks : PublishPut(t)
    \/ \E t \in Tasks : SubscribeEnter(t)
    \/ \E t \in Tasks : SubscribePut(t)
    \/ \E t \in Tasks, q \in 1..MaxSubscribers : Unsubscribe(t, q)

SpecPublisher == InitPublisher /\ [][NextPublisher]_vars

\* ------------------------------------------------------------------------
\* The normalizer called on raw records of either shape
\* ------------------------------------------------------------------------
Requests ==
    { TranscriptEventRequest(k, tx, ts, d, et, tx, sp) :
        k \in Kinds \cup {"None"}, tx \in {NoneStr, <<"hello">>},
        ts \in {NullTime, MaxTime}, d \in {"None", "details"},
        et \in {"None", "final"}, sp \in {NoSpeaker, "speaker_1"} }

Normalize(request) ==
    /\ stats.v1_events + stats.v2_events < MaxEvents
    /\ stats' = count_format(stats, request.Kind # "None")
    /\ resp' = [op |-> "normalize_v1_to_v2", ok |-> TRUE, err |-> "None",
                args |-> request, ret |-> normalize_v1_to_v2(request, now)]
    /\ UNCHANGED << mgrVars, state, pipeVars, analyzer, writing, loaded, routes, call,
                    pubVars, docs, dispatched, now >>

InitNormalize == InitCommon /\ analyzer = TRUE /\ routes = DefaultRoutes

NextNormalize == \E request \in Requests : Normalize(request)

SpecNormalize == InitNormalize /\ [][NextNormalize]_vars

\* ------------------------------------------------------------------------
\* Properties
\* ------------------------------------------------------------------------
\* a session is Active: there is a current session and its ended_at is null
ActiveSession == session.session_id # NoSession /\ session.ended_at = NullTime

\* the sessions that are not ended, the replaced session objects included
ActiveCount ==
    Cardinality({i \in 1..Len(past) : past[i] = NullTime})
        + (IF ActiveSession THEN 1 ELSE 0)

\* C1: at every moment at most one session is Active, whatever the order of
\* session starts and ends, by endpoint or by direct call.
C1_AtMostOneActive == ActiveCount <= 1

\* a second session is running after the first one was replaced
C1_Witness == Len(past) >= 1 /\ past[1] # NullTime /\ ActiveSession

\* one POST /session/start request
StartEndpointCall ==
    \E pm \in BOOLEAN, c \in Speakers \cup {NoSpeaker} :
        StartSession(pm, c) /\ resp' = start_session_response(pm)

Rank(status) ==
    CASE status = PENDING -> 0
      [] status = ANALYZING -> 1
      [] status = COMPLETE -> 2

\* C3 as stated: within one session the status of a checklist item only moves
\* forward, pending to analyzing to complete; no update of either writer moves
\* it back.
C3_StatusMonotone ==
    [][session'.session_id = session.session_id
         => \A i \in ItemIds : Rank(state'[i].status) >= Rank(state[i].status)]_vars

\* where the id is in the put order
PutPos(id) == CHOOSE n \in 1..Len(put_log) : put_log[n] = id

\* C4: the analysis items of a session's document are in the order in which
\* their source events were put on the analysis queue.
C4_AppendOrder ==
    \A sid \in DOMAIN docs :
        LET items == docs[sid].analysis_items
        IN  \A a, b \in 1..Len(items) :
                a < b =>
                    /\ \E n \in 1..Len(put_log) : put_log[n] = items[a].src
                    /\ \E n \in 1..Len(put_log) : put_log[n] = items[b].src
                    /\ PutPos(items[a].src) < PutPos(items[b].src)

\* a document holds the items of two events
C4_Witness ==
    \E sid \in DOMAIN docs :
        /\ Len(docs[sid].analysis_items) >= 2
        /\ docs[sid].analysis_items[1].src # docs[sid].analysis_items[2].src

\* the worker takes an event with a non-empty text off the analysis queue
DequeuesText ==
    /\ Len(agent_queue') < Len(agent_queue)
    /\ Truthy(Head(agent_queue).text)

\* C5 as stated: for every event with a non-empty text that the worker
\* dequeues, the analysis collaborator is called exactly once.
C5_ExactlyOnce ==
    [][DequeuesText => analyze_calls'[Head(agent_queue).id] = 1]_vars

\* C5 as the code has it: the collaborator is called at most once per event;
\* exactly once when, at the dequeue, a session is Active and the worker has
\* its analyzer, and not at all otherwise.
C5_OnceIfActive ==
    /\ [](\A i \in 1..MaxEvents : analyze_calls[i] <= 1)
    /\ [][DequeuesText =>
            analyze_calls'[Head(agent_queue).id] =
                (IF ActiveSession /\ analyzer THEN 1 ELSE 0)]_vars

\* an event was dequeued after its session had ended, and was not analyzed
C5_Witness ==
    \E i \in 1..Len(put_log) :
        /\ \A n \in 1..Len(agent_queue) : agent_queue[n].id # put_log[i]
        /\ Truthy(req[put_log[i]].event.text)
        /\ analyze_calls[put_log[i]] = 0
        /\ analyzer
        /\ ~ActiveSession

\* C6 as stated: an event whose collaborator call failed is dropped: no item
\* for it is appended, no analysis payload is dispatched, and it is neither
\* called again nor put back on the queue.
C6_FailedEventDropped ==
    \A id \in failed_calls :
        /\ \A sid \in DOMAIN docs :
              \A n \in 1..Len(docs[sid].analysis_items) :
                  docs[sid].analysis_items[n].src # id
        /\ \A pl \in dispatched : ~(pl.event_type = "analysis" /\ pl.id = id)
        /\ \A n \in 1..Len(agent_queue) : agent_queue[n].id # id
        /\ analyze_calls[id] <= 1

\* C7: a failure while processing an event leaves the worker running, at the
\* head of its loop or in the sleep before it, with the queue as it was, from
\* where it dequeues again; only the cancellation ends the loop.
C7_WorkerSurvivesFailure ==
    /\ [](worker.pc \in {"get", "analyze", "dispatch", "sleep", "cancelled"})
    /\ [](worker.pc = "sleep" => ENABLED WorkerWake)
    /\ [](worker.pc = "get" /\ agent_queue # <<>> => ENABLED WorkerGet)
    /\ [][(worker.pc = "analyze" /\ worker'.pc \notin {"analyze", "dispatch", "cancelled"})
            => (worker'.pc \in {"get", "sleep"} /\ agent_queue' = agent_queue)]_vars
    /\ [][(worker.pc # "cancelled" /\ worker'.pc \notin {"get", "analyze", "dispatch", "sleep"})
            => Shutdown]_vars

\* the analysis of one event raised, and a later event has its item
C7_Witness ==
    \E a \in failed_calls, sid \in DOMAIN docs :
        /\ \A d \in DOMAIN docs : \A n \in 1..Len(docs[d].analysis_items) :
               docs[d].analysis_items[n].src # a
        /\ \E n \in 1..Len(docs[sid].analysis_items) :
               /\ docs[sid].analysis_items[n].src # a
               /\ PutPos(docs[sid].analysis_items[n].src) > PutPos(a)

\* the next step of the request of event k
IngestStep(k) ==
    \/ AfterSave(k)
    \/ \E item \in ToolItems \cup {"None"} : AfterTool(k, item)
    \/ AfterDispatch(k)

\* C8: while the worker waits for the analysis collaborator, ingestion goes
\* on: a new event is taken in and every request in flight can take its next
\* step, the put on the analysis queue included.
C8_IngestionNotBlocked ==
    (worker.pc = "analyze") =>
        /\ \A k \in InFlight : ENABLED IngestStep(k)
        /\ (events_received < MaxEvents /\ Cardinality(InFlight) < MaxInFlight)
              => \A i \in EventInputs : ENABLED ReceiveTranscript(i)

\* the worker waits for the collaborator, and a later event was recorded and
\* is on both queues
C8_Witness ==
    /\ worker.pc = "analyze"
    /\ \E n \in 1..Len(agent_queue), m \in 1..Len(transcript_queue) :
          /\ agent_queue[n].id > worker.event.id
          /\ transcript_queue[m].id = agent_queue[n].id
          /\ req[agent_queue[n].id].sid # NoSession

\* C9 as stated: every event the ingestion takes in is put on the general
\* queue exactly once, whatever its type and text, session or no session.
C9_GeneralQueueExactlyOnce ==
    \A k \in 1..Len(req) :
        LET n == Cardinality({m \in 1..Len(transcript_queue) : transcript_queue[m].id = k})
        IN  /\ n <= 1
            /\ req[k].pc \in {"ok", "failed"} => n = 1

\* C10: an event is put on the analysis queue only if it is a final event,
\* was recorded in a session that was Active when it came in, and its speaker
\* is the one mapped as candidate at the put.
C10_OnlyCandidateFinals ==
    [][Len(agent_queue') > Len(agent_queue) =>
         LET e == agent_queue'[Len(agent_queue')]
         IN  /\ e.event_type = "final"
             /\ req[e.id].sid # NoSession
             /\ e.speaker_id # NoSpeaker
             /\ e.speaker_id = get_candidate_speaker_id_of(speaker_roles)]_vars

\* an event of the candidate is queued while an event of the other speaker,
\* recorded in a session too, is not
C10_Witness ==
    /\ agent_queue # <<>>
    /\ \E k \in 1..Len(req) :
          /\ req[k].pc = "ok"
          /\ req[k].sid # NoSession
          /\ req[k].event.speaker_id = "speaker_0"
          /\ \A n \in 1..Len(put_log) : put_log[n] # k

\* the worker's step that appends an item: analyze_async returned and the
\* document was written
WorkerAppends == worker.pc = "analyze" /\ worker'.pc = "dispatch"

C12_ReaderNeverSeesPartial ==
    /\ loaded.result # "OutputReadError"
    /\ (writing = NoWrite => \A sid \in DOMAIN docs : ~IsTruncated(docs[sid]))

\* the HTTP exchange of a webhook failed, in the sense dispatch gives it:
\* an exception or a status from 400 on
Failed(outcome) == outcome.raised \/ outcome.status >= 400

\* C13: dispatch_all never raises and, once it has returned, holds one result
\* per configured route, in configuration order; a route that fails gives a
\* result with ok false, and the routes after it are dispatched all the same.
C13_OneResultPerRoute ==
    /\ call.pc \in {"idle", "running", "returned"}
    /\ Len(call.results) <= Len(routes)
    /\ call.pc = "returned" => Len(call.results) = Len(routes)
    /\ \A i \in 1..Len(call.results) :
          /\ call.results[i].route_id = routes[i].route_id
          /\ call.results[i].route_type = routes[i].route_type
          /\ (routes[i].route_type = "webhook" /\ Failed(call.outcomes[i]))
                => ~call.results[i].ok
          /\ routes[i].route_type = "ui_stream" => call.results[i].ok

\* a failing webhook first, a succeeding ui route second: two results, one of
\* them not ok
C13_Witness ==
    /\ call.pc = "returned"
    /\ Len(routes) = 2
    /\ routes[1].route_type = "webhook" /\ routes[2].route_type = "ui_stream"
    /\ ~call.results[1].ok /\ call.results[2].ok

\* C14 as stated: a webhook result is ok exactly when the HTTP response has a
\* 2xx status; any other status, or an exception, gives ok false with a detail.
C14_OnlySuccessStatusIsOk ==
    \A i \in 1..Len(call.results) :
        routes[i].route_type = "webhook" =>
            LET o == call.outcomes[i]
                success == ~o.raised /\ o.status >= 200 /\ o.status <= 299
            IN  /\ call.results[i].ok = success
                /\ ~success => call.results[i].detail # NoDetail

\* the step is a call of apply_talestral_heuristic, with the arguments resp'
\* records
HeuristicCalled ==
    /\ resp'.op = "apply_talestral_heuristic"
    /\ ChecklistHeuristic(resp'.args[1], resp'.args[2])

\* C15: the heuristic, on a text with a keyword of item A (the first item that
\* matches): A pending becomes analyzing whoever speaks; A analyzing becomes
\* complete when the candidate speaks; A analyzing stays as it is, and nothing
\* else changes, when anyone else speaks.  No other item is ever touched.
C15_HeuristicTransitions ==
    [][(/\ HeuristicCalled
        /\ Truthy(resp'.args[1])
        /\ FirstMatch(resp'.args[1]) # 0)
          => LET A == Definitions[FirstMatch(resp'.args[1])].id
                 speaker_role == resp'.args[2]
                 cs == state[A].status
             IN  /\ cs = PENDING => state'[A].status = ANALYZING
                 /\ (cs = ANALYZING /\ speaker_role = "candidate")
                       => state'[A].status = COMPLETE
                 /\ (cs = ANALYZING /\ speaker_role # "candidate") => state' = state
                 /\ \A other \in ItemIds \ {A} : state'[other] = state[other]]_vars

\* the interviewer has said a keyword of an analyzing item, to no effect, and
\* the candidate's saying it has completed another
C15_Witness ==
    /\ resp.op = "apply_talestral_heuristic"
    /\ resp.args = << <<"scale">>, "interviewer" >>
    /\ ~resp.ok
    /\ state["experience"].status = ANALYZING
    /\ state["intro"].status = COMPLETE
    /\ state["intro"].source = "heuristic"

\* the step is a call of update, with the arguments resp' records
UpdateCalled ==
    /\ resp'.op = "update"
    /\ ChecklistUpdate(resp'.args[1], resp'.args[2], resp'.args[3])

\* C16: an update asking for the status the item already has returns false and
\* changes nothing, neither updated_at, reason and source of the item nor any
\* other item.
C16_SameStatusNoChange ==
    [][(/\ UpdateCalled
        /\ resolve_item_id(resp'.args[1]) # "None"
        /\ state[resolve_item_id(resp'.args[1])].status = resp'.args[2])
          => state' = state /\ ~resp'.ok]_vars

\* an update to complete, by another source and at a later time, of an item
\* that was already complete has returned false
C16_Witness ==
    /\ resp.op = "update"
    /\ ~resp.ok
    /\ resp.args = << "Experience", COMPLETE, "manual" >>
    /\ state["experience"].status = COMPLETE
    /\ state["experience"].source = "agent"
    /\ state["experience"].updated_at < now

\* C17: at the step by which a new session becomes active through the start
\* endpoint, every checklist item is pending, with no updated_at, reason or
\* source, whatever the items were before.
C17_ChecklistResetAtStart ==
    [][(session'.session_id # session.session_id /\ is_active_of(session'))
          => \A i \in ItemIds : state'[i] = ChecklistItemState]_vars

\* the second session is active with a pending checklist, and the document of
\* the first records that an item had left pending there
C17_Witness ==
    /\ ActiveSession
    /\ session.session_id = 2
    /\ HasDoc(docs, 1)
    /\ \E i \in 1..Len(Definitions) : docs[1].checklist_state[i] # PENDING
    /\ \A i \in ItemIds : state[i] = ChecklistItemState

\* the step is a direct call of the manager's end_session
EndSessionCalled == resp'.op = "mgr.end_session" /\ MgrEndSession

\* C18 as stated: end_session with no session, or with a session that has
\* already ended, changes nothing and returns null, so that an ended session
\* keeps its ended_at; on an active session it stamps ended_at and the session
\* stays retrievable.
C18_EndInactiveIsNoOp ==
    [][EndSessionCalled =>
          IF is_active
          THEN /\ resp'.ok
               /\ session' = [session EXCEPT !.ended_at = now]
          ELSE /\ ~resp'.ok
               /\ session' = session]_vars

\* the step is a map_speaker with this role: a direct call of the manager, or
\* the endpoint
MapSpeakerCalled(sp, role) ==
    \/ resp'.op = "mgr.map_speaker" /\ MgrMapSpeaker(sp, role)
    \/ /\ resp'.op = "map_speaker"
       /\ MapSpeaker(sp, role)
       /\ resp' = map_speaker_response(role)

\* C19: map_speaker with a role that is neither candidate nor interviewer
\* fails, and leaves the session's speaker_mappings and the role table as they
\* were.
C19_InvalidRoleRejected ==
    [][\A sp \in Speakers, role \in {"invalid_role", "unknown"} :
          MapSpeakerCalled(sp, role)
          => /\ ~resp'.ok
             /\ session' = session
             /\ speaker_roles' = speaker_roles]_vars

\* an invalid role has been refused on an active session that has a mapping
C19_Witness ==
    /\ resp = Err("mgr.map_speaker", "ValueError: Invalid role")
    /\ is_active
    /\ session.speaker_mappings # <<>>
    /\ speaker_roles # <<>>

\* the step is a direct call of the manager's map_speaker or add_transcript
ManagerWriteCalled ==
    \/ /\ resp'.op = "mgr.map_speaker"
       /\ \E sp \in Speakers, role \in ValidRoles : MgrMapSpeaker(sp, role)
    \/ /\ resp'.op = "mgr.add_transcript"
       /\ \E i \in MgrEventInputs :
             MgrAddTranscript(TranscriptEvent(0, i[1], i[2], i[3]))

\* C20 as stated: map_speaker and add_transcript are rejected whenever no
\* session is active, before the first session and after the current one has
\* ended alike, and the rejected call leaves mappings and transcript as they
\* were.
C20_RejectedWhenNotActive ==
    [][(ManagerWriteCalled /\ ~is_active)
          => /\ ~resp'.ok
             /\ session' = session
             /\ speaker_roles' = speaker_roles]_vars

\* the step is an append_item that returned, with the arguments resp' records
AppendReturned ==
    /\ resp'.op = "append_item"
    /\ resp'.ok
    /\ WriterAppend(resp'.args[1], resp'.args[2], "ok")

\* C21: every append_item that returns leaves the items it found, in their
\* order, followed by the new item, and a total_responses_analyzed equal to
\* the number of stored items; on a session id without a file the document
\* holds exactly the new item.  So k appends to a fresh id give those k items
\* in append order and a total of k.
C21_AppendOrderAndCount ==
    [][AppendReturned
          => LET sid == resp'.args[1]
                 old == IF HasDoc(docs, sid) THEN docs[sid].analysis_items ELSE << >>
             IN  /\ docs'[sid].analysis_items = Append(old, resp'.args[2])
                 /\ docs'[sid].total_responses_analyzed = Len(old) + 1
                 /\ ~HasDoc(docs, sid) => IsDocument(docs'[sid])
                 /\ \A other \in DOMAIN docs \ {sid} : docs'[other] = docs[other]]_vars

\* three appends have given a document of three items, in append order, with
\* a total of 3
C21_Witness ==
    /\ resp.op = "append_item" /\ resp.ok
    /\ HasDoc(docs, 1)
    /\ IsDocument(docs[1])
    /\ docs[1].analysis_items = << WriterItem(1), WriterItem(2), WriterItem(1) >>
    /\ docs[1].total_responses_analyzed = 3

\* the sum of a field over the items, taken by position
RECURSIVE SumUpTo(_, _, _)
SumUpTo(items, field, n) ==
    IF n = 0 THEN 0 ELSE items[n][field] + SumUpTo(items, field, n - 1)

\* m is the arithmetic mean of the field over the items; None for no items
IsMeanOf(m, items, field) ==
    IF items = << >> THEN m = NoMean
    ELSE /\ Len(m) = 2
         /\ m[2] > 0
         /\ m[1] * Len(items) = m[2] * SumUpTo(items, field, Len(items))

\* the step is a write_analysis that returned, with the arguments resp' records
WriteReturned ==
    /\ resp'.op = "write_analysis"
    /\ resp'.ok
    /\ WriterWrite(resp'.args[1], resp'.args[2], "ok")

\* C22: after write_analysis has returned, load_analysis of the same session
\* id returns a document with the items of the written analysis in their
\* order, a total_responses_analyzed equal to their number, and overall
\* relevance and clarity equal to the mean of their scores (None without
\* items), whatever aggregates the written object carried.
C22_RoundTrip ==
    [][WriteReturned
          => LET l == load_analysis(docs', resp'.args[1])
                 items == resp'.args[2].analysis_items
             IN  /\ l.result = "ok"
                 /\ l.doc.analysis_items = items
                 /\ l.doc.total_responses_analyzed = Len(items)
                 /\ IsMeanOf(l.doc.overall_relevance, items, "relevance_score")
                 /\ IsMeanOf(l.doc.overall_clarity, items, "clarity_score")]_vars

\* an analysis of two items that carried a total of 7 and means that do not
\* fit was written; the stored document has 2, 4.5 and 7.0
C22_Witness ==
    /\ resp.op = "write_analysis" /\ resp.ok
    /\ resp.args[2].total_responses_analyzed = 7
    /\ Len(resp.args[2].analysis_items) = 2
    /\ load_analysis(docs, resp.args[1]).result = "ok"
    /\ load_analysis(docs, resp.args[1]).doc.total_responses_analyzed = 2
    /\ load_analysis(docs, resp.args[1]).doc.overall_relevance = << 9, 2 >>
    /\ load_analysis(docs, resp.args[1]).doc.overall_clarity = << 7, 1 >>

\* the step is a load_analysis of this session id
LoadCalled(sid) == resp'.op = "load_analysis" /\ WriterLoad(sid)

\* C23 as stated: load_analysis returns None only when the session id has no
\* file; for a file that is not valid JSON, or that is not a document, it
\* raises OutputReadError and returns neither None nor a document.
C23_MalformedRaisesReadError ==
    [][\A sid \in 1..MaxSessions :
          LoadCalled(sid)
          => /\ loaded'.result = "None" <=> ~HasDoc(docs, sid)
             /\ (HasDoc(docs, sid) /\ ~IsDocument(docs[sid]))
                   => loaded'.result = "OutputReadError"
             /\ (HasDoc(docs, sid) /\ IsDocument(docs[sid]))
                   => loaded'.result = "ok" /\ loaded'.doc = docs[sid]]_vars

\* the step is an append_item on this session id
AppendCalled(sid) ==
    /\ resp'.op = "append_item"
    /\ \E n \in WriterItemIds : WriterAppend(sid, WriterItem(n), "ok")

\* C24 as stated: append_item on a session id whose file is not valid JSON, or
\* is not a document, raises OutputReadError and leaves the file as it was.
C24_AppendOnMalformedFails ==
    [][\A sid \in 1..MaxSessions :
          (AppendCalled(sid) /\ HasDoc(docs, sid) /\ ~IsDocument(docs[sid]))
          => /\ resp'.err = "OutputReadError"
             /\ docs' = docs]_vars

\* the analysis payloads dispatched so far
AnalysisPayloads(d) == { p \in d : p.event_type = "analysis" }

\* C25: the cancellation of shutdown stops the worker at the await it is in,
\* and from then on it does nothing: no event is taken from the analysis
\* queue, no analysis is called, no item is appended to any document and no
\* analysis payload is dispatched.
C25_CancelledWorkerStops ==
    [][/\ Shutdown => worker'.pc = "cancelled"
       /\ worker.pc = "cancelled"
             => /\ worker' = worker
                /\ analyze_calls' = analyze_calls
                /\ Len(agent_queue') >= Len(agent_queue)
                /\ SubSeq(agent_queue', 1, Len(agent_queue)) = agent_queue
                /\ DOMAIN docs \subseteq DOMAIN docs'
                /\ \A sid \in DOMAIN docs' :
                      docs'[sid].analysis_items =
                          IF sid \in DOMAIN docs THEN docs[sid].analysis_items ELSE << >>
                /\ AnalysisPayloads(dispatched') = AnalysisPayloads(dispatched)]_vars

\* the worker was cancelled in the middle of an analysis that was called and
\* left no item, failure or payload, with another event still on the queue
C25_Witness ==
    /\ worker.pc = "cancelled"
    /\ agent_queue # << >>
    /\ \E id \in 1..MaxEvents :
          /\ analyze_calls[id] = 1
          /\ id \notin failed_calls
          /\ \A sid \in DOMAIN docs : \A n \in 1..Len(docs[sid].analysis_items) :
                docs[sid].analysis_items[n].src # id
          /\ \A p \in AnalysisPayloads(dispatched) : p.id # id

\* the name is no id of the checklist and, case aside, no label
UnknownItem(item) ==
    /\ item \notin ItemIds
    /\ \A i \in 1..Len(Definitions) : Lower(Definitions[i].label) # Lower(item)

\* C26: an update that names an unknown item, or asks for a status that is no
\* checklist status, returns false and leaves every item as it was.
C26_UnknownItemOrStatus ==
    [][(UpdateCalled
        /\ (UnknownItem(resp'.args[1]) \/ resp'.args[2] \notin ChecklistStatus))
          => state' = state /\ ~resp'.ok]_vars

\* an update of the unknown item "Background" has returned false on a
\* checklist that is no longer all pending
C26_Witness ==
    /\ resp.op = "update"
    /\ ~resp.ok
    /\ resp.args[1] = "Background"
    /\ resp.args[2] = COMPLETE
    /\ state["intro"].status = ANALYZING

\* C27: a call of the heuristic changes at most one item, and never an item
\* that comes, in declaration order, after another item whose keywords are in
\* the text too, whether or not that earlier item changes; with no keyword in
\* the text nothing changes.
C27_OnlyFirstMatchConsidered ==
    [][HeuristicCalled
          => LET text == resp'.args[1]
             IN  /\ Cardinality({ id \in ItemIds : state'[id] # state[id] }) <= 1
                 /\ \A i \in 1..Len(Definitions) :
                       (\/ ~Truthy(text)
                        \/ ~Matches(i, text)
                        \/ \E j \in 1..(i - 1) : Matches(j, text))
                       => state'[Definitions[i].id] = state[Definitions[i].id]]_vars

\* a text with keywords of both items was heard while the first was complete:
\* nothing changed, and the second is still pending
C27_Witness ==
    /\ resp.op = "apply_talestral_heuristic"
    /\ resp.args = << << "experience", "introduce" >>, "candidate" >>
    /\ ~resp.ok
    /\ state["intro"].status = COMPLETE
    /\ state["experience"].status = PENDING

\* the step is a call of snapshot
SnapshotCalled == resp'.op = "snapshot" /\ ChecklistSnapshot

\* C28: snapshot changes nothing of the checklist state; it returns one row
\* per item, in declaration order, with the item's id, label, status,
\* updated_at, reason and source; and a call that follows another with no
\* update or reset between them returns the same rows.
C28_SnapshotPure ==
    [][SnapshotCalled
          => /\ state' = state
             /\ Len(resp'.args) = Len(Definitions)
             /\ \A i \in 1..Len(Definitions) :
                   LET row == resp'.args[i]
                       cur == state[Definitions[i].id]
                   IN  /\ row.id = Definitions[i].id
                       /\ row.label = Definitions[i].label
                       /\ row.status = cur.status
                       /\ row.updated_at = cur.updated_at
                       /\ row.reason = cur.reason
                       /\ row.source = cur.source
             /\ resp.op = "snapshot" => resp'.args = resp.args]_vars

\* a snapshot taken after time has passed reports the first item complete,
\* with the time and the source of its update
C28_Witness ==
    /\ resp.op = "snapshot"
    /\ resp.args[1].id = "intro"
    /\ resp.args[1].status = COMPLETE
    /\ resp.args[1].updated_at = 1
    /\ resp.args[1].source = "heuristic"
    /\ resp.args[2].status = PENDING
    /\ now = 2
    /\ state["intro"].updated_at = 1

\* the step is a build of the route orchestrator from the spec resp' records
BuildCalled ==
    /\ resp'.op = "build_route_orchestrator"
    /\ BuildRouteOrchestrator([i \in 1..Len(resp'.args) |->
                                  << resp'.args[i].type, resp'.args[i].enabled >>])

\* C29 as stated: a build from a spec that declares a route of a type that is
\* not implemented fails, and no orchestrator comes of it.
C29_DeclaredUnimplementedFails ==
    [][(BuildCalled
        /\ \E i \in 1..Len(resp'.args) : resp'.args[i].type \in UnimplementedTypes)
          => ~resp'.ok /\ routes' = routes]_vars

\* C29, amended: a build from a spec with an enabled route of a type that is
\* not implemented fails, and no orchestrator comes of it; a disabled route
\* is passed over whatever its type.  No orchestrator ever holds a route of
\* such a type.
C29_EnabledUnimplementedFails ==
    /\ [][(BuildCalled
           /\ \E i \in 1..Len(resp'.args) :
                 resp'.args[i].enabled /\ resp'.args[i].type \in UnimplementedTypes)
             => ~resp'.ok /\ routes' = routes]_vars
    /\ [](\A i \in 1..Len(routes) : routes[i].route_type \notin UnimplementedTypes)

\* a spec with an enabled ui_stream route followed by an enabled teams_dm
\* route was refused
C29_Witness ==
    /\ resp.op = "build_route_orchestrator"
    /\ ~resp.ok
    /\ Len(resp.args) = 2
    /\ resp.args[1] = OutputRouteSpec(1, "ui_stream", TRUE)
    /\ resp.args[2] = OutputRouteSpec(2, "teams_dm", TRUE)

AnalyzedInOwnSession(k) ==
    /\ k \in 1..Len(req)
    /\ HasDoc(docs, req[k].sid)
    /\ \E n \in 1..Len(docs[req[k].sid].analysis_items) :
          docs[req[k].sid].analysis_items[n].src = k
    /\ Payload("analysis", req[k].sid, k) \in dispatched

\* event k, with a text that is not empty, was put on the analysis queue
QueuedWithText(k) ==
    /\ \E n \in 1..Len(put_log) : put_log[n] = k
    /\ Truthy(req[k].event.text)

\* C31 as stated: with a collaborator that answers and a worker that is not
\* cancelled, every event with a non-empty text put on the analysis queue
\* during session S is in the end analyzed, its item appended to the document
\* of S and its analysis payload dispatched, whether or not S has ended by
\* the time the worker reaches the event.
C31_QueuedEventuallyAnalyzed ==
    \A k \in 1..MaxEvents : QueuedWithText(k) ~> AnalyzedInOwnSession(k)

\* C32 as stated: every analysis item in the document of session S, and every
\* analysis payload dispatched under S, comes from an event that was recorded
\* during S: an event queued in one session is never analyzed and stored or
\* dispatched under the id of a later one.
C32_ItemsFromOwnSession ==
    /\ \A sid \in DOMAIN docs :
          \A n \in 1..Len(docs[sid].analysis_items) :
              req[docs[sid].analysis_items[n].src].sid = sid
    /\ \A pl \in dispatched :
          pl.event_type = "analysis" => req[pl.id].sid = pl.session_id

\* C33: no appended item is lost to a rewrite.  The ingestion's checklist
\* refresh and the finalization at session end each load the document and
\* write it back in one step of their task, as does the worker's append, so
\* however the three tasks interleave, the item of every append that has
\* completed (its analysis payload was handed over in the same step) is in
\* the document it was appended to, once and only once.
C33_NoItemLostToRewrite ==
    \A pl \in dispatched :
        pl.event_type = "analysis" =>
            /\ HasDoc(docs, pl.session_id)
            /\ Cardinality({n \in 1..Len(docs[pl.session_id].analysis_items) :
                    docs[pl.session_id].analysis_items[n].src = pl.id}) = 1

\* the item of event 1 is still in the document after the ingestion of event
\* 2 refreshed it and, while the worker awaits the analysis of event 2, the
\* end handler finalized it
C33_Witness ==
    /\ worker.pc = "analyze"
    /\ worker.event.id = 2
    /\ req[2].sid = session.session_id
    /\ session.ended_at # NullTime
    /\ HasDoc(docs, session.session_id)
    /\ docs[session.session_id].ended_at # NullTime
    /\ \E n \in 1..Len(docs[session.session_id].analysis_items) :
          docs[session.session_id].analysis_items[n].src = 1
    /\ Payload("transcript", session.session_id, 2) \in dispatched

\* the step is a call of the update_checklist tool that changes the checklist
ToolCallbackStep == req' = req /\ session' = session /\ state' # state

\* the step is the return of analyze_for_checklist to the request of event k
AfterToolStep(k) == req[k].pc = "tool" /\ req'[k].pc = "dispatch"

\* C34 as stated: no checklist change caused by an event of an earlier
\* session is applied after a new session has started: neither the tool
\* callback nor the tool's result of a request that was recorded in a session
\* other than the current one alters the checklist.
C34_NoLateChecklistChange ==
    [][/\ ToolCallbackStep =>
             \E k \in 1..Len(req) :
                 req[k].pc = "tool" /\ req[k].sid = session.session_id
       /\ \A k \in 1..Len(req) :
             AfterToolStep(k) /\ req[k].sid # session.session_id
                 => state' = state]_vars

\* C35 as stated: for every session id, the session_started payload is handed
\* to the routes before any transcript or analysis payload carrying that id,
\* and no transcript or analysis payload carrying it is handed over after
\* its session_ended payload.
C35_PayloadsWithinSession ==
    [][\A pl \in dispatched' \ dispatched :
          pl.event_type \in {"transcript", "analysis"} =>
              /\ Payload("session_started", pl.session_id, 0) \in dispatched
              /\ Payload("session_ended", pl.session_id, 0) \notin dispatched]_vars

\* no call of the publisher is under way
Quiescent == \A t \in Tasks : tasks[t].pc = "idle"

\* what queue q has received is the n-th part of what it is due: the history
\* held when it was made, then the thoughts published since, in publish order
DueSoFar(q) ==
    \A n \in 1..Len(queues[q].items) :
        /\ queues[q].items[n] = queues[q].first + n - 1
        /\ queues[q].items[n] <= published

\* C40: every subscriber's queue receives the history retained at the moment
\* of subscribing and then every thought published afterwards, each exactly
\* once and in publish order, with no duplicate and no gap, however the
\* subscribe and publish calls of different tasks interleave: at any moment a
\* queue holds a first part of that sequence, and all of it once no call is
\* under way.
C40_SubscriberGetsHistoryThenAll ==
    /\ \A q \in 1..Len(queues) : DueSoFar(q)
    /\ Quiescent =>
          \A n \in 1..Len(publisher.subscribers) :
              LET q == publisher.subscribers[n]
              IN  Len(queues[q].items) = published - queues[q].first + 1

\* a queue made after the history was cut holds the two thoughts retained
\* then and the one published since, while an older queue holds all four
C40_Witness ==
    /\ Quiescent
    /\ Len(queues) = 2
    /\ publisher.subscribers = << 1, 2 >>
    /\ queues[1].items = << 1, 2, 3, 4 >>
    /\ queues[2].items = << 2, 3, 4 >>

\* C36: under the heuristic, complete is absorbing and is not reached from
\* pending: a call of apply_talestral_heuristic leaves every item that is
\* complete exactly as it is, and an item it makes complete was analyzing
\* before the call, had a keyword in the text and was spoken to by the
\* candidate; so an item needs two matching utterances, the second the
\* candidate's, to get from pending to complete.
C36_CompleteAbsorbingViaAnalyzing ==
    [][HeuristicCalled =>
          \A n \in 1..Len(Definitions) :
              LET A == Definitions[n].id
              IN  /\ state[A].status = COMPLETE => state'[A] = state[A]
                  /\ (state'[A].status = COMPLETE /\ state[A].status # COMPLETE) =>
                        /\ state[A].status = ANALYZING
                        /\ resp'.args[2] = "candidate"
                        /\ Matches(n, resp'.args[1])
                  /\ state[A].status = PENDING => state'[A].status # COMPLETE]_vars

\* the candidate has said a keyword of a complete item, to no effect, and the
\* item is still as the heuristic completed it
C36_Witness ==
    /\ resp.op = "apply_talestral_heuristic"
    /\ resp.args = << <<"experience", "introduce">>, "candidate" >>
    /\ ~resp.ok
    /\ state["intro"].status = COMPLETE
    /\ state["intro"].source = "heuristic"
    /\ state["intro"].reason = "Candidate response completed active topic"
    /\ state["experience"].status = PENDING

\* the role the session's speaker_mappings give a speaker, "None" for none
MappingRole(s, sp) ==
    IF \E i \in 1..Len(s.speaker_mappings) : s.speaker_mappings[i].speaker_id = sp
    THEN s.speaker_mappings[CHOOSE i \in 1..Len(s.speaker_mappings) :
                                s.speaker_mappings[i].speaker_id = sp].role
    ELSE "None"

\* how many mappings the session holds for a speaker
MappingCount(s, sp) ==
    Cardinality({i \in 1..Len(s.speaker_mappings) :
                    s.speaker_mappings[i].speaker_id = sp})

\* C37: after any sequence of map_speaker calls the session holds at most one
\* mapping per speaker_id, exactly one for a speaker that was mapped, with the
\* role of the latest call for that speaker; and the lookups used for routing
\* agree with the session's speaker_mappings: get_speaker_role gives each
\* speaker the role of its mapping, and get_candidate_speaker_id gives a
\* speaker whose mapping is candidate, or none when there is no such mapping.
C37_OneMappingLastWins ==
    /\ [](IsNone(session) => speaker_roles = <<>>)
    /\ [](~IsNone(session) =>
            /\ \A sp \in Speakers :
                  /\ MappingCount(session, sp) <= 1
                  /\ get_speaker_role(sp) = MappingRole(session, sp)
            /\ \A i \in 1..Len(session.speaker_mappings) :
                  session.speaker_mappings[i].speaker_id \in Speakers
            /\ IF \E sp \in Speakers : MappingRole(session, sp) = "candidate"
               THEN MappingRole(session, get_candidate_speaker_id) = "candidate"
               ELSE get_candidate_speaker_id = NoSpeaker)
    /\ [][\A sp \in Speakers, role \in ValidRoles :
            (MapSpeakerCalled(sp, role) /\ resp'.ok) =>
                /\ MappingCount(session', sp) = 1
                /\ MappingRole(session', sp) = role
                /\ \A other \in Speakers \ {sp} :
                      MappingRole(session', other) = MappingRole(session, other)]_vars

\* speaker_1 was mapped first and mapped again after speaker_0: its mapping
\* is the last of the list and carries the later role, and the role table,
\* where it kept its place, agrees
C37_Witness ==
    /\ ~IsNone(session)
    /\ speaker_roles = << <<"speaker_1", "interviewer">>, <<"speaker_0", "candidate">> >>
    /\ session.speaker_mappings =
          << [speaker_id |-> "speaker_0", role |-> "candidate"],
             [speaker_id |-> "speaker_1", role |-> "interviewer"] >>
    /\ get_candidate_speaker_id = "speaker_0"

\* the step is a call of get_recent_transcripts, with the arguments and the
\* result resp' records
GetRecentCalled ==
    /\ resp'.op = "mgr.get_recent_transcripts"
    /\ MgrGetRecentTranscripts(resp'.args[1], resp'.args[2])

\* the events of the session the query is about
MatchingEvents(final_only) ==
    IF IsNone(session) THEN <<>>
    ELSE IF final_only
    THEN SelectSeq(session.transcript_events, LAMBDA e : e.event_type = "final")
    ELSE session.transcript_events

\* C38 as stated: get_recent_transcripts(count=N), for every N >= 0, returns
\* the last min(N, number of matching events) recorded events in their
\* original order (the final ones only when final_only is set), and never
\* more than N events.
C38_LastNInOrder ==
    [][GetRecentCalled =>
          LET N == resp'.args[1]
              events == MatchingEvents(resp'.args[2])
              k == IF N < Len(events) THEN N ELSE Len(events)
          IN  /\ Len(resp'.ret) <= N
              /\ resp'.ret = SubSeq(events, Len(events) - k + 1, Len(events))]_vars

\* the step is a call of normalize_v1_to_v2 on a legacy record, with the
\* record and the result resp' records
NormalizeLegacyCalled ==
    /\ resp'.op = "normalize_v1_to_v2"
    /\ resp'.args.Kind # "None"
    /\ Normalize(resp'.args)

\* C39 as stated: the normalizer maps a legacy record's kind, whatever its
\* case, recognizing to partial and recognized to final, and passes every
\* other kind (session kinds, cancel kinds, unknown kinds) through unchanged
\* but for lower-casing; each record yields exactly one event.
C39_OtherKindsPassThrough ==
    [][NormalizeLegacyCalled =>
          LET kind == KindLower(resp'.args.Kind)
          IN  /\ kind = "recognizing" => resp'.ret.event_type = "partial"
              /\ kind = "recognized" => resp'.ret.event_type = "final"
              /\ kind \notin {"recognizing", "recognized"}
                    => resp'.ret.event_type = kind
              /\ stats'.v1_events = stats.v1_events + 1]_vars

\* C39 as the code has it: recognizing gives partial, recognized gives final
\* and canceled gives error, whatever the case of the kind; every other kind
\* (session_started, session_stopped, unknown kinds) gives the kind in lower
\* case; each legacy record yields exactly one payload, with the record's
\* Text, and is counted once as a v1 event and not as a v2 event.
C39_KindsMapped ==
    [][NormalizeLegacyCalled =>
          LET kind == KindLower(resp'.args.Kind)
          IN  /\ kind = "recognizing" => resp'.ret.event_type = "partial"
              /\ kind = "recognized" => resp'.ret.event_type = "final"
              /\ kind = "canceled" => resp'.ret.event_type = "error"
              /\ kind \notin {"recognizing", "recognized", "canceled"}
                    => resp'.ret.event_type = kind
              /\ resp'.ret.text = resp'.args.Text
              /\ stats'.v1_events = stats.v1_events + 1
              /\ stats'.v2_events = stats.v2_events]_vars

\* a legacy record of kind RECOGNIZED has come out as a final event, after a
\* record that was counted too
C39_Witness ==
    /\ resp.op = "normalize_v1_to_v2"
    /\ resp.args.Kind = "RECOGNIZED"
    /\ resp.ret.event_type = "final"
    /\ resp.ret.text = <<"hello">>
    /\ stats.v1_events = 2

====
